---- MODULE Spec2Model ----
(***************************************************************************)
(* A state-machine model of the realtime-sports-scraper pipeline:          *)
(*   - EventProcessor (validation, dedup cache with per-entry expiry       *)
(*     timers, built-in alerts, the custom rule registry),                 *)
(*   - the stateful rules of eventProcessor/rules.js,                      *)
(*   - BaseCollector / BwinCollector / Bet365Collector (session            *)
(*     supervision, reconnect policy, message parsing),                    *)
(*   - SofaScoreCollector.handleMatchUpdate (score-diff goal detection).   *)
(* JavaScript runs each callback to completion; an action of the model is  *)
(* one synchronous block of the code, and an await ends the block.         *)
(***************************************************************************)
EXTENDS Integers, Sequences, FiniteSets, TLC

VARIABLES
  now,            \* the wall clock (Date.now()), in model ticks
  \* ---- EventProcessor ----
  eventCache,     \* this.eventCache: fingerprint -> event
  cacheTimers,    \* pending setTimeout callbacks of cacheEvent: [key, due]
  enabledEvents,  \* this.enabledEvents
  rules,          \* this.rules: insertion-ordered Map, as a sequence of [name, fn]
  procPending,    \* process() calls suspended at `await this.processEventType(event)`
  alerts,         \* every emit('alert', alert) so far, in order
  rulePass,       \* the applyRules() call in progress (its iterator and results)
  passLog,        \* history: the number of applyRules() calls that have returned
  lastCall,       \* history: the process() or applyRules() call that has just returned
  admits,         \* history: the calls that passed the dedup gate
  cleared,        \* history: clearCache() has been called
  regLog,         \* history: the addRule() and removeRule() calls so far, when kept
  sink,           \* the calls of the 'alert' listener: the alert, and how sendAlert stands
  \* ---- BaseCollector / BwinCollector / Bet365Collector ----
  coll,           \* the collector: its fields, its pending timers, its history
  isRunning,      \* SportsDataPipeline.isRunning
  lastMsg,        \* history: the raw message onMessage has just handled
  peer,           \* the other collector of pipeline.collectors, when there is one
  peerSeen,       \* history: the other collector as it was before a handler of coll ran
  \* ---- eventProcessor/rules.js ----
  playerGoals,    \* hatTrickRule's closure: key -> goals counted
  cardHistory,    \* multipleCardsRule's closure: matchId -> the cards recorded
  ruleLog,        \* history: the events fed to the rule, with what it returned
  \* ---- SofaScoreCollector ----
  previousScores, \* this.previousScores: matchId -> the score last stored
  matchInfo,      \* this.matchInfo: matchId -> where the match details came from
  sofaTasks,      \* handleMatchUpdate() calls suspended at an await
  sofaEvents,     \* every emit('event', event) so far, in order
  sofaLog,        \* history: the updates handed to handleMatchUpdate(), in order
  sofaOverlap,    \* history: a call began while another one was suspended
  \* ---- functions that keep no state ----
  pureCall        \* one call: the function, its argument, and what it returned

procVars == <<eventCache, cacheTimers, enabledEvents, rules, procPending, alerts,
              rulePass, passLog, lastCall, admits, cleared, regLog, sink>>
collVars == <<coll, isRunning, lastMsg, peer, peerSeen>>
ruleVars == <<playerGoals, cardHistory, ruleLog>>
sofaVars == <<previousScores, matchInfo, sofaTasks, sofaEvents, sofaLog, sofaOverlap>>

\* what the actions of one component leave alone
notProc == <<collVars, ruleVars, sofaVars, pureCall>>
notColl == <<now, procVars, ruleVars, sofaVars, pureCall>>
notRule == <<now, procVars, collVars, sofaVars, pureCall>>
notSofa == <<now, procVars, collVars, ruleVars, pureCall>>
notPure == <<now, procVars, collVars, ruleVars, sofaVars>>

----------------------------------------------------------------------------
(* Bounds of the model *)

MaxTime == 3
MaxAdmits == 2
CacheTimeout == 2
MaxPasses == 2
MaxTouched == 1
MaxRegCalls == 3

----------------------------------------------------------------------------
(* JavaScript values: undefined, null, numbers, strings, objects *)

Undef == <<"undef">>
Null == <<"null">>
Obj == <<"obj">>
Num(n) == <<"num", n>>
Str(s) == <<"str", s>>

\* ToBoolean: what `a && b` and `if (a)` test
Truthy(v) ==
  CASE v[1] = "undef" -> FALSE
    [] v[1] = "null" -> FALSE
    [] v[1] = "num" -> v[2] # 0
    [] v[1] = "str" -> v[2] # ""
    [] OTHER -> TRUE

DigitStr(d) ==
  CASE d = 0 -> "0" [] d = 1 -> "1" [] d = 2 -> "2" [] d = 3 -> "3" [] d = 4 -> "4"
    [] d = 5 -> "5" [] d = 6 -> "6" [] d = 7 -> "7" [] d = 8 -> "8" [] OTHER -> "9"

RECURSIVE NatStr(_)
NatStr(n) == IF n < 10 THEN DigitStr(n) ELSE NatStr(n \div 10) \o DigitStr(n % 10)

\* String(v), as a template literal `${v}` applies it
toStr(v) ==
  CASE v[1] = "undef" -> "undefined"
    [] v[1] = "null" -> "null"
    [] v[1] = "num" -> IF v[2] < 0 THEN "-" \o NatStr(-v[2]) ELSE NatStr(v[2])
    [] v[1] = "str" -> v[2]
    [] OTHER -> "[object Object]"

----------------------------------------------------------------------------
(* EventProcessor: the events fed to process() *)

ProcSources == {Undef, Str("bwin")}
ProcMatchIds == {Undef, Str("m1")}
ProcEventTypes == {Undef, Str("goal"), Str("yellow_card"), Str("corner")}
ProcMinutes == {Num(7)}
ProcTimestamps == {Undef, Num(0), Num(1000)}
ProcScores == {Undef, Obj}

MissingCount(e) ==
  Cardinality({f \in {"source", "matchId", "eventType", "timestamp"} : ~Truthy(e[f])})

\* process(null); the complete events (a goal with and without a score); and a
\* goal event that lacks one required field, or carries a falsy one
ProcEvents ==
  {e \in [nil : {FALSE}, source : ProcSources, matchId : ProcMatchIds,
          eventType : ProcEventTypes, minute : ProcMinutes,
          timestamp : ProcTimestamps, score : ProcScores] :
     \/ MissingCount(e) = 0 /\ (e.score = Obj => e.eventType = Str("goal"))
     \/ MissingCount(e) = 1 /\ e.score = Obj /\ e.eventType \in {Undef, Str("goal")}}
  \cup {[nil |-> TRUE, source |-> Undef, matchId |-> Undef, eventType |-> Undef,
         minute |-> Undef, timestamp |-> Undef, score |-> Undef]}

\* options.enabledEvents: one category switched off
EnabledConfigs == {[goals |-> TRUE, redCards |-> TRUE, yellowCards |-> FALSE]}

\* mutant: the timestamp is not required
isValidEventNoTimestamp(e) ==
  /\ ~e.nil
  /\ Truthy(e.eventType)
  /\ Truthy(e.matchId)
  /\ Truthy(e.source)

isValidEvent(e) ==
  /\ ~e.nil
  /\ Truthy(e.eventType)
  /\ Truthy(e.matchId)
  /\ Truthy(e.timestamp)
  /\ Truthy(e.source)

getEventKey(e) ==
  toStr(e.source) \o ":" \o toStr(e.matchId) \o ":" \o toStr(e.eventType)
    \o ":" \o toStr(e.minute) \o ":" \o toStr(e.timestamp)

\* the fingerprint of each event of the model, computed once
KeyTable == [e \in ProcEvents |-> getEventKey(e)]
Key(e) == IF e \in DOMAIN KeyTable THEN KeyTable[e] ELSE getEventKey(e)

\* mutant: the lookup never finds the fingerprint
isDuplicateNever(cache, e) == FALSE

isDuplicate(cache, e) == Key(e) \in DOMAIN cache

\* eventCache.set(key, event)
CachePut(cache, e) ==
  [k \in DOMAIN cache \cup {Key(e)} |->
     IF k = Key(e) THEN e ELSE cache[k]]

\* eventCache.delete(key)
CacheDelete(cache, key) == [k \in DOMAIN cache \ {key} |-> cache[k]]

\* mutant: the expiry timer is scheduled with no delay
CacheTimerNoDelay(e, t) == [key |-> Key(e), due |-> t]

\* the timer cacheEvent schedules: setTimeout(..., this.cacheTimeout)
CacheTimer(e, t) == [key |-> Key(e), due |-> t + CacheTimeout]

NoAlert == [kind |-> "none"]
Thrown == [kind |-> "throw"]
MkAlert(type, severity, e) ==
  [kind |-> "alert", type |-> type, severity |-> severity,
   matchId |-> e.matchId, source |-> e.source, raw |-> e]

\* processGoal reads score.home (logger.info and formatGoalMessage): a TypeError
\* when the event carries no score
processGoal(e) == IF Truthy(e.score) THEN MkAlert("goal", "high", e) ELSE Thrown
processRedCard(e) == MkAlert("red_card", "high", e)
processYellowCard(e) == MkAlert("yellow_card", "medium", e)

processEventType(e, en) ==
  CASE e.eventType = Str("goal") -> IF en.goals THEN processGoal(e) ELSE NoAlert
    [] e.eventType = Str("red_card") -> IF en.redCards THEN processRedCard(e) ELSE NoAlert
    [] e.eventType = Str("yellow_card") ->
         IF en.yellowCards THEN processYellowCard(e) ELSE NoAlert
    [] OTHER -> NoAlert

EmptyCache == [k \in {} |-> Undef]
NoCall == [outcome |-> "none", key |-> ""]
NoPass == [active |-> FALSE]
NoLog == [on |-> FALSE, calls |-> <<>>]
EmptyLog == [on |-> TRUE, calls |-> <<>>]

ProcEmpty ==
  /\ eventCache = EmptyCache
  /\ cacheTimers = {}
  /\ rules = <<>>
  /\ procPending = <<>>
  /\ alerts = <<>>
  /\ rulePass = NoPass
  /\ passLog = 0
  /\ lastCall = NoCall
  /\ admits = <<>>
  /\ cleared = FALSE
  /\ sink = <<>>

\* `options.enabledEvents || { goals: true, redCards: true, yellowCards: true }`
DefaultEnabled == [goals |-> TRUE, redCards |-> TRUE, yellowCards |-> TRUE]

ProcFields == ProcEmpty /\ enabledEvents \in EnabledConfigs

ProcInit == ProcFields /\ regLog = NoLog

\* history: the admissions of `key` that a removal of the entry ends
MarkEvicted(log, keys) ==
  [i \in DOMAIN log |->
     IF log[i].key \in keys THEN [log[i] EXCEPT !.evicted = TRUE] ELSE log[i]]

\* history: which return of process() a call takes (and, for a rejected event,
\* the cache and the timers the call found)
CallOutcome(cache, timers, e) ==
  IF ~isValidEvent(e) THEN [outcome |-> "invalid", key |-> "", before |-> <<cache, timers>>]
  ELSE IF isDuplicate(cache, e) THEN [outcome |-> "duplicate", key |-> Key(e)]
  ELSE [outcome |-> "admitted", key |-> Key(e)]

\* history: a call that passed the dedup gate, at `t`, before or after clearCache()
Admission(e, t, afterClear) ==
  [key |-> Key(e), at |-> t, evicted |-> FALSE, event |-> e, afterClear |-> afterClear]

\* cacheEvent(event): the entry, and the timer that will delete it
cacheEvent(cache, e) == CachePut(cache, e)

\* process(event), from its entry to `await this.processEventType(event)`
ProcessBegin(e) ==
  /\ (isValidEvent(e) /\ ~isDuplicate(eventCache, e)) => Len(admits) < MaxAdmits
  /\ lastCall' = CallOutcome(eventCache, cacheTimers, e)
  /\ IF ~isValidEvent(e) \/ isDuplicate(eventCache, e)
       THEN UNCHANGED <<eventCache, cacheTimers, procPending, admits>>
       ELSE /\ eventCache' = cacheEvent(eventCache, e)
            /\ cacheTimers' = cacheTimers \cup {CacheTimer(e, now)}
            /\ procPending' =
                 Append(procPending, [event |-> e, result |-> processEventType(e, enabledEvents)])
            /\ admits' = Append(admits, Admission(e, now, cleared))
  /\ UNCHANGED notProc
  /\ UNCHANGED <<now, enabledEvents, rules, alerts, rulePass, passLog, cleared, regLog, sink>>

\* mutant: emit() with the listener registered twice
HandToSinkTwice(calls, alert) ==
  calls \o <<[alert |-> alert, state |-> "sending"], [alert |-> alert, state |-> "sending"]>>

\* this.emit('alert', alert): the one 'alert' listener is called with the alert
\* and runs to `await this.notifier.sendAlert(alert)`
HandToSink(calls, alert) == Append(calls, [alert |-> alert, state |-> "sending"])

\* mutant: an emit() that waits for the promises of the listener calls
SinkHoldsWhileSending(calls) == \E i \in DOMAIN calls : calls[i].state = "sending"

\* emit() drops the promise the async listener returns: no call of the listener
\* holds back the caller
SinkHolds(calls) == FALSE

\* process(event), after the await: emit the alert, or catch what was thrown;
\* the call returns here, and has invoked no rule function of this.rules
\* (nothing in process() reads the registry or calls applyRules)
ProcessResume ==
  /\ procPending # <<>>
  /\ ~SinkHolds(sink)
  /\ procPending' = Tail(procPending)
  /\ alerts' = IF Head(procPending).result.kind = "alert"
                 THEN Append(alerts, Head(procPending).result)
                 ELSE alerts
  /\ sink' = IF Head(procPending).result.kind = "alert"
               THEN HandToSink(sink, Head(procPending).result)
               ELSE sink
  /\ lastCall' = [outcome |-> "processed", key |-> Key(Head(procPending).event),
                  ran |-> <<>>, result |-> Head(procPending).result]
  /\ UNCHANGED notProc
  /\ UNCHANGED <<now, eventCache, cacheTimers, enabledEvents, rules, rulePass,
                 passLog, admits, cleared, regLog>>

\* a timer callback is a new task of the event loop: it runs only once the
\* continuations queued as microtasks (the resolved awaits) have run
MicrotasksDone == procPending = <<>>

\* the setTimeout callback of cacheEvent: this.eventCache.delete(key)
CacheTimerFire(t) ==
  /\ t \in cacheTimers
  /\ now >= t.due
  /\ MicrotasksDone
  /\ cacheTimers' = cacheTimers \ {t}
  /\ eventCache' = CacheDelete(eventCache, t.key)
  /\ admits' = IF t.key \in DOMAIN eventCache THEN MarkEvicted(admits, {t.key}) ELSE admits
  /\ lastCall' = NoCall
  /\ UNCHANGED notProc
  /\ UNCHANGED <<now, enabledEvents, rules, procPending, alerts, rulePass, passLog, cleared, regLog, sink>>

clearCache ==
  /\ ~cleared
  /\ eventCache' = EmptyCache
  /\ cleared' = TRUE
  /\ admits' = MarkEvicted(admits, DOMAIN eventCache)
  /\ lastCall' = NoCall
  /\ UNCHANGED notProc
  /\ UNCHANGED <<now, cacheTimers, enabledEvents, rules, procPending, alerts, rulePass,
                 passLog, regLog, sink>>

\* the state of the processor a listener call could reach
ProcCore == <<eventCache, cacheTimers, procPending, alerts, admits>>

\* the 'alert' listener after `await this.notifier.sendAlert(alert)`: the send
\* went through (stats.alertsSent++), or sendAlert threw after its retries and
\* the catch logs it (stats.errors++); a send that never completes never gets here
SinkSettle(i, state) ==
  /\ i \in DOMAIN sink
  /\ sink[i].state = "sending"
  /\ sink' = [sink EXCEPT ![i].state = state]
  /\ lastCall' = [outcome |-> "settled", key |-> "", state |-> state, before |-> ProcCore]
  /\ UNCHANGED notProc
  /\ UNCHANGED <<now, eventCache, cacheTimers, enabledEvents, rules, procPending, alerts,
                 rulePass, passLog, admits, cleared, regLog>>

ProcTick ==
  /\ now < MaxTime
  /\ MicrotasksDone
  /\ now' = now + 1
  /\ lastCall' = NoCall
  /\ UNCHANGED notProc
  /\ UNCHANGED <<eventCache, cacheTimers, enabledEvents, rules, procPending, alerts,
                 rulePass, passLog, admits, cleared, regLog, sink>>

ProcNext ==
  \/ \E e \in ProcEvents : ProcessBegin(e)
  \/ ProcessResume
  \/ \E t \in cacheTimers : CacheTimerFire(t)
  \/ clearCache
  \/ ProcTick

\* the processor with its 'alert' listener: sends that go through, that fail,
\* and that never complete
SinkNext ==
  \/ \E e \in ProcEvents : ProcessBegin(e)
  \/ ProcessResume
  \/ \E t \in cacheTimers : CacheTimerFire(t)
  \/ ProcTick
  \/ \E i \in DOMAIN sink, state \in {"sent", "failed"} : SinkSettle(i, state)

----------------------------------------------------------------------------
(* EventProcessor: the custom rule registry (addRule, removeRule, applyRules) *)

\* the names rules are registered under
RuleNames == {"a", "b"}

\* the rule functions handed to addRule: a rule of rules.js, a rule that throws
\* and an async rule that rejects on every invocation
RuleFns == {"earlyGoalRule", "throwingRule", "rejectingRule"}

\* the events handed to applyRules()
RuleEvents ==
  {e \in ProcEvents :
     /\ MissingCount(e) = 0
     /\ e.timestamp = Num(1000)
     /\ e.eventType \in {Str("goal"), Str("yellow_card")}
     /\ (e.eventType = Str("goal") => e.score = Obj)}

\* the event handed to process() while rules are registered
PipelineEvents == {e \in RuleEvents : e.eventType = Str("goal")}

\* `event.minute <= n`: the minute goes through ToNumber (undefined is NaN and
\* compares false, null is 0)
JsLessEq(v, n) ==
  CASE v[1] = "num" -> v[2] <= n
    [] v[1] = "null" -> 0 <= n
    [] OTHER -> FALSE

RuleNull == [kind |-> "null"]
RuleValue(type) == [kind |-> "value", type |-> type]

earlyGoalRule(e) ==
  IF e.eventType = Str("goal") /\ JsLessEq(e.minute, 15)
    THEN RuleValue("early_goal") ELSE RuleNull

\* what `ruleFn(event)` does: returns a result or null, throws, or returns a
\* promise that rejects
RuleOutcome(fn, e) ==
  CASE fn = "earlyGoalRule" -> earlyGoalRule(e)
    [] fn = "throwingRule" -> [kind |-> "throw"]
    [] OTHER -> [kind |-> "reject"]

RuleIndex(rs, name) ==
  IF \E i \in DOMAIN rs : rs[i].name = name
    THEN CHOOSE i \in DOMAIN rs : rs[i].name = name
    ELSE 0

\* mutant: a Map.set that keeps the function a known name already has
RulesSetKeepFirst(rs, name, fn) ==
  IF RuleIndex(rs, name) = 0 THEN Append(rs, [name |-> name, fn |-> fn]) ELSE rs

\* mutant: a Map.set that moves a known name behind the other entries
RulesSetMoveLast(rs, name, fn) ==
  Append(SelectSeq(rs, LAMBDA r : r.name # name), [name |-> name, fn |-> fn])

\* Map.set(name, ruleFn): a new name goes last, a known name keeps its place
RulesSet(rs, name, fn) ==
  IF RuleIndex(rs, name) = 0
    THEN Append(rs, [name |-> name, fn |-> fn])
    ELSE [rs EXCEPT ![RuleIndex(rs, name)] = [name |-> name, fn |-> fn]]

\* Map.delete(name)
RulesDelete(rs, name) ==
  LET i == RuleIndex(rs, name) IN
    IF i = 0 THEN rs ELSE [j \in 1..(Len(rs) - 1) |-> IF j < i THEN rs[j] ELSE rs[j + 1]]

\* mutant: applyRules without the try/catch around the rule call
ContinueAfterNoCatch(o) == o.kind \notin {"throw", "reject"}

\* the try/catch is inside the loop: whatever the rule did, the loop goes on
ContinueAfter(o) == TRUE

\* the loop of applyRules from the entry after position `from` of the live Map
\* iterator, up to its next await or to `return results`; a rule that throws
\* synchronously is caught without leaving the synchronous block
RECURSIVE RunRules(_, _, _)
RunRules(rs, p, from) ==
  IF from >= Len(rs)
    THEN [p EXCEPT !.state = "done", !.pos = Len(rs)]
    ELSE LET r == rs[from + 1]
             o == RuleOutcome(r.fn, p.event)
             q == [p EXCEPT !.ran = Append(@, r), !.pos = from + 1]
         IN IF o.kind = "throw"
              THEN IF ContinueAfter(o) THEN RunRules(rs, q, from + 1)
                                       ELSE [q EXCEPT !.state = "done"]
              ELSE [q EXCEPT !.state = "await", !.cur = r]

\* what a finished applyRules() call leaves: its results, and its history
PassSummary(p) ==
  [outcome |-> "applied", event |-> p.event, results |-> p.results, ran |-> p.ran,
   start |-> p.start, touched |-> p.touched]

PassSettle(p) ==
  IF p.state = "done"
    THEN /\ rulePass' = NoPass
         /\ passLog' = passLog + 1
         /\ lastCall' = PassSummary(p)
    ELSE /\ rulePass' = p
         /\ lastCall' = NoCall
         /\ UNCHANGED passLog

\* applyRules(event), from its entry to the first await (or to its return)
ApplyRulesBegin(e) ==
  /\ ~rulePass.active
  /\ passLog < MaxPasses
  /\ PassSettle(RunRules(rules,
                         [active |-> TRUE, state |-> "run", event |-> e, pos |-> 0,
                          cur |-> [name |-> "", fn |-> ""], results |-> <<>>,
                          ran |-> <<>>, start |-> rules, touched |-> {}],
                         0))
  /\ UNCHANGED notProc
  /\ UNCHANGED <<now, eventCache, cacheTimers, enabledEvents, rules, procPending, alerts,
                 admits, cleared, regLog, sink>>

\* applyRules(event), resumed after `await ruleFn(event)`: push the result or
\* catch the rejection, then go on with the next entry of this.rules
ApplyRulesResume ==
  /\ rulePass.active
  /\ LET o == RuleOutcome(rulePass.cur.fn, rulePass.event)
         p == IF o.kind = "value"
                THEN [rulePass EXCEPT
                        !.results = Append(@, [rule |-> rulePass.cur.name, result |-> o])]
                ELSE rulePass
     IN PassSettle(IF ContinueAfter(o) THEN RunRules(rules, p, p.pos)
                                       ELSE [p EXCEPT !.state = "done"])
  /\ UNCHANGED notProc
  /\ UNCHANGED <<now, eventCache, cacheTimers, enabledEvents, rules, procPending, alerts,
                 admits, cleared, regLog, sink>>

\* history: the registry changes (numbered) made while a pass is in progress
Touch(p, name) ==
  IF p.active THEN [p EXCEPT !.touched = @ \cup {<<Cardinality(@), name>>}] ELSE p

\* bound: the registry changes while one pass is in progress
MayChangeRules == rulePass.active => Cardinality(rulePass.touched) < MaxTouched

\* history: one more call of addRule() or removeRule()
Logged(log, call) == IF log.on THEN [log EXCEPT !.calls = Append(@, call)] ELSE log

\* bound: the calls of addRule() and removeRule() that are kept
MayLog == regLog.on => Len(regLog.calls) < MaxRegCalls

addRule(name, ruleFn) ==
  /\ MayChangeRules
  /\ MayLog
  /\ regLog' = Logged(regLog, [op |-> "add", name |-> name, fn |-> ruleFn])
  /\ rules' = RulesSet(rules, name, ruleFn)
  /\ rulePass' = Touch(rulePass, name)
  /\ lastCall' = NoCall
  /\ UNCHANGED notProc
  /\ UNCHANGED <<now, eventCache, cacheTimers, enabledEvents, procPending, alerts,
                 passLog, admits, cleared, sink>>

\* removing an entry the iterator of a pass in progress has passed moves the
\* iterator back with the entries behind it
removeRule(name) ==
  /\ MayChangeRules
  /\ MayLog
  /\ regLog' = Logged(regLog, [op |-> "remove", name |-> name, fn |-> ""])
  /\ rules' = RulesDelete(rules, name)
  /\ rulePass' =
       LET i == RuleIndex(rules, name)
           p == Touch(rulePass, name)
       IN IF p.active /\ i # 0 /\ i <= p.pos THEN [p EXCEPT !.pos = @ - 1] ELSE p
  /\ lastCall' = NoCall
  /\ UNCHANGED notProc
  /\ UNCHANGED <<now, eventCache, cacheTimers, enabledEvents, procPending, alerts,
                 passLog, admits, cleared, sink>>

\* the registry and one caller of applyRules(), with the calls of addRule() and
\* removeRule() kept
RegistryNext ==
  \/ \E n \in RuleNames, f \in RuleFns : addRule(n, f)
  \/ \E n \in RuleNames : removeRule(n)
  \/ \E e \in RuleEvents : ApplyRulesBegin(e)
  \/ ApplyRulesResume

RulesNext ==
  \/ \E n \in RuleNames, f \in RuleFns : addRule(n, f)
  \/ \E n \in RuleNames : removeRule(n)
  \/ \E e \in RuleEvents : ApplyRulesBegin(e)
  \/ ApplyRulesResume
  \/ \E e \in PipelineEvents : ProcessBegin(e)
  \/ ProcessResume

----------------------------------------------------------------------------
(* BaseCollector and its subclasses: the session, the reconnect policy *)

MaxReconnectAttempts == 2
ReconnectDelay == 1
HeartbeatInterval == 2
MaxStarts == 2
\* maxReconnectAttempts of the collector whose backoff is followed past the factor 5
BackoffAttempts == 6

CollectorKinds == {"base", "bwin", "bet365"}

\* `new WebSocket(url)` throws on a url it cannot parse
Urls == {"valid", "invalid"}

Min(a, b) == IF a < b THEN a ELSE b

\* the age of the last message is not followed beyond this
MaxAge == HeartbeatInterval * 3 + 1

\* constructor(url, options); the timers count the ticks left before they fire,
\* lastMessageAge is Date.now() - this.lastMessageTime
NewCollector(kind, url) ==
  [kind |-> kind, url |-> url, ws |-> "null", isConnected |-> FALSE,
   reconnectAttempts |-> 0, maxReconnectAttempts |-> MaxReconnectAttempts,
   heartbeatTimer |-> Null, lastMessageAge |-> 0,
   reconnectTimers |-> <<>>,
   \* sockets that this.ws no longer refers to: connect() replaced them without
   \* disconnect(), so their listeners still call this collector
   others |-> <<>>,
   \* history
   orphaned |-> FALSE,   \* disconnect() dropped a socket that was still connecting
   delays |-> <<>>,      \* the reconnect delays scheduled since the last successful open
   retryStatus |-> <<>>, \* what getStatus() showed of it when a retry was last scheduled
   failures |-> 0,       \* connection failures since the last successful open
   maxReached |-> 0,     \* maxReconnectReached emitted since the last successful open
   failed |-> FALSE,     \* Failed: maxReconnectReached emitted, not reopened or restarted since
   starts |-> 0,         \* external connect() calls
   leftOver |-> FALSE,   \* an external disconnect() left a reconnect timer pending
   badSeen |-> FALSE,    \* a malformed message was received on this session
   intervals |-> 0]      \* setInterval timers of startHeartbeat not cleared yet

\* getStatus(): the entry of one collector, `{ name, connected: collector.isConnected }`
StatusEntry(c) == [name |-> c.kind, connected |-> c.isConnected]

\* mutant: the cap is compared with >
CapReachedLate(c) == c.reconnectAttempts > c.maxReconnectAttempts

CapReached(c) == c.reconnectAttempts >= c.maxReconnectAttempts

\* mutant: the delay grows with every attempt
BackoffDelayLinear(attempts) == ReconnectDelay * attempts

\* `this.reconnectDelay * Math.min(this.reconnectAttempts, 5)`
BackoffDelay(attempts) == ReconnectDelay * Min(attempts, 5)

handleReconnect(c) ==
  IF CapReached(c)
    THEN [c EXCEPT !.maxReached = @ + 1, !.failed = TRUE]
    ELSE [c EXCEPT !.reconnectAttempts = @ + 1,
                   !.reconnectTimers = Append(@, BackoffDelay(c.reconnectAttempts + 1)),
                   !.delays = Append(@, BackoffDelay(c.reconnectAttempts + 1)),
                   !.retryStatus = <<StatusEntry(c)>>]

\* history: one more connection failure
Failure(c) == [c EXCEPT !.failures = @ + 1]

Live == {"connecting", "open"}

\* `this.ws = new WebSocket(...)` overwrites the reference; a socket that was
\* live keeps its listeners
connect(c) ==
  IF c.url = "valid"
    THEN [c EXCEPT !.ws = "connecting", !.badSeen = FALSE,
                   !.others = IF c.ws \in Live THEN Append(@, c.ws) ELSE @]
    ELSE handleReconnect(Failure(c))

\* `if (this.heartbeatTimer) { clearInterval(this.heartbeatTimer); ... = null }`
stopHeartbeat(c) ==
  IF c.heartbeatTimer = Null THEN c
  ELSE [c EXCEPT !.heartbeatTimer = Null, !.intervals = @ - 1]

\* mutant: the timer is set without clearing the one that runs
startHeartbeatNoStop(c) ==
  [c EXCEPT !.heartbeatTimer = Num(HeartbeatInterval), !.intervals = @ + 1]

\* `this.stopHeartbeat(); this.heartbeatTimer = setInterval(...)`
startHeartbeat(c) ==
  [stopHeartbeat(c) EXCEPT !.heartbeatTimer = Num(HeartbeatInterval), !.intervals = @ + 1]

\* mutant: the heartbeat timer is left running
disconnectKeepHeartbeat(c) ==
  [c EXCEPT !.ws = "null", !.isConnected = FALSE, !.orphaned = @ \/ c.ws = "connecting"]

\* removeAllListeners(): the socket no longer reaches the collector; close() is
\* called only when readyState is OPEN, so a socket that is still connecting is
\* dropped as it is
disconnect(c) ==
  [stopHeartbeat(c) EXCEPT !.ws = "null", !.isConnected = FALSE,
                           !.orphaned = @ \/ c.ws = "connecting"]

reconnect(c) == connect(disconnect(c))

\* the sockets whose listeners call this collector
Sessions(c) == (IF c.ws = "null" THEN <<>> ELSE <<c.ws>>) \o c.others

\* what the pipeline reads of a collector: isConnected, reconnectAttempts, socket
ConnState(c) == <<c.isConnected, c.reconnectAttempts, c.ws>>

\* the state disconnect() leaves: no socket, no heartbeat, not connected
Released(c) == c.ws = "null" /\ c.heartbeatTimer = Null /\ ~c.isConnected

\* history of one disconnect() call
DisconnectCall(op, c) ==
  [op |-> op, start |-> ConnState(c), released |-> Released(c),
   unchanged |-> disconnect(c) = c, kept |-> disconnect(c).others]

\* `timeSinceLastMessage > this.heartbeatInterval * 2`
Stalled(c) == c.lastMessageAge > HeartbeatInterval * 2

\* the body of the setInterval callback; the interval timer rearms itself
heartbeatCheck(c) ==
  IF Stalled(c)
    THEN reconnect(c)
    ELSE [c EXCEPT !.heartbeatTimer = Num(HeartbeatInterval)]

\* send(): the message goes to this.ws, and only when that socket is open
send(c) == IF c.ws = "open" THEN "sent" ELSE "notSent"

\* subscribe(): BwinCollector sends its subscription message; Bet365Collector
\* and BaseCollector only log
subscribe(c) ==
  CASE c.kind = "bwin" -> send(c)
    [] c.kind = "bet365" -> "awaiting"
    [] OTHER -> "notOverridden"

\* mutant: the attempt counter is kept
onOpenKeepAttempts(c) ==
  [startHeartbeat([c EXCEPT !.isConnected = TRUE, !.lastMessageAge = 0])
     EXCEPT !.failures = 0, !.maxReached = 0, !.failed = FALSE, !.delays = <<>>]

onOpen(c) ==
  [startHeartbeat([c EXCEPT !.isConnected = TRUE, !.reconnectAttempts = 0,
                            !.lastMessageAge = 0])
     EXCEPT !.failures = 0, !.maxReached = 0, !.failed = FALSE, !.delays = <<>>]

onClose(c) ==
  handleReconnect(Failure(stopHeartbeat([c EXCEPT !.isConnected = FALSE])))

RemoveAt(seq, i) == [j \in 1..(Len(seq) - 1) |-> IF j < i THEN seq[j] ELSE seq[j + 1]]

(* The raw messages: how the text begins, and what JSON.parse makes of it *)

\* "invalid": JSON.parse throws; otherwise the kind of value it returns (an
\* object whose type is 'event', another object, an array, null, a falsy
\* scalar, a truthy scalar)
JsonKinds == {"invalid", "event", "object", "array", "null", "falsy", "scalar"}

\* a JSON object begins with { and an array with [, unless white space precedes
RawMessages ==
  {r \in [lead : {"brace", "bracket", "other"}, json : JsonKinds] :
     /\ r.json \in {"event", "object"} => r.lead \in {"brace", "other"}
     /\ r.json = "array" => r.lead \in {"bracket", "other"}
     /\ r.json \in {"null", "falsy", "scalar"} => r.lead = "other"}

Malformed(r) == r.json = "invalid"

\* BaseCollector.parseMessage: JSON.parse, null when it throws
parseMessageBase(r) == IF r.json = "invalid" THEN "null" ELSE r.json

\* BwinCollector.parseMessage: message.type of null is a TypeError, caught
parseMessageBwin(r) ==
  CASE r.json = "invalid" -> "null"
    [] r.json = "null" -> "null"
    [] r.json = "event" -> "normalized"
    [] OTHER -> r.json

\* Bet365Collector.parseCustomFormat: the raw text wrapped for later analysis
parseCustomFormat(r) == "needsParsing"

\* mutant: text that is not JSON is dropped
parseMessageBet365Strict(r) ==
  IF r.json = "invalid" THEN "null" ELSE "normalized"

\* Bet365Collector.parseMessage: JSON only when the text begins with { or [
parseMessageBet365(r) ==
  IF r.lead \in {"brace", "bracket"}
    THEN IF r.json = "invalid" THEN "null" ELSE "normalized"
    ELSE parseCustomFormat(r)

parseMessage(kind, r) ==
  CASE kind = "bwin" -> parseMessageBwin(r)
    [] kind = "bet365" -> parseMessageBet365(r)
    [] OTHER -> parseMessageBase(r)

\* `if (message)`
TruthyMessage(m) == m \notin {"null", "falsy"}

NoMsg == [op |-> "none"]

(* The collector's handlers, and the pipeline's start() and stop() *)

\* a pipeline with one collector
NoPeer == [kind |-> "none"]

\* mutant: a handler of one collector disconnects the other
BystanderDisconnected(p) == IF p = NoPeer THEN p ELSE disconnect(p)

\* what the handlers of one collector do to another one: every field they
\* assign is a field of `this`, the timers they set call back into `this`
Bystander(p) == p

\* a socket or timer callback of coll
HandlerFrame ==
  /\ peer' = Bystander(peer)
  /\ peerSeen' = IF peer = NoPeer THEN <<>> ELSE <<peer>>
  /\ UNCHANGED <<isRunning, notColl>>

\* start(): `collector.connect()` for each collector
startEach(c) == IF c = NoPeer THEN c ELSE [connect(c) EXCEPT !.starts = @ + 1, !.failed = FALSE]

\* stop(): `collector.disconnect()` for each collector
stopEach(c) ==
  IF c = NoPeer THEN c
  ELSE [disconnect(c) EXCEPT !.leftOver = @ \/ c.reconnectTimers # <<>>]

\* no timer of the collector is due
NothingDue(c) ==
  IF c = NoPeer THEN TRUE
  ELSE /\ \A i \in DOMAIN c.reconnectTimers : c.reconnectTimers[i] > 0
       /\ c.heartbeatTimer # Num(0)

\* one tick of time, seen from a collector
Tick(c) ==
  IF c = NoPeer THEN c
  ELSE [c EXCEPT !.reconnectTimers = [i \in DOMAIN @ |-> @[i] - 1],
                 !.heartbeatTimer = IF @ = Null THEN Null ELSE Num(@[2] - 1),
                 !.lastMessageAge = Min(@ + 1, MaxAge)]

PipelineStart ==
  /\ ~isRunning
  /\ coll.starts < MaxStarts
  /\ isRunning' = TRUE
  /\ coll' = startEach(coll)
  /\ peer' = startEach(peer)
  /\ peerSeen' = <<>>
  /\ lastMsg' = NoMsg
  /\ UNCHANGED notColl

PipelineStop ==
  /\ isRunning
  /\ isRunning' = FALSE
  /\ coll' = stopEach(coll)
  /\ peer' = stopEach(peer)
  /\ peerSeen' = <<>>
  /\ lastMsg' = DisconnectCall("disconnect", coll)
  /\ UNCHANGED notColl

\* the socket's 'open' event
SocketOpen ==
  /\ coll.ws = "connecting"
  /\ coll' = onOpen([coll EXCEPT !.ws = "open"])
  /\ lastMsg' = [op |-> "open", socket |-> "ws", subscribe |-> subscribe(coll'),
                 before |-> ConnState(coll), after |-> ConnState(coll'),
                 timer |-> coll'.heartbeatTimer]
  /\ HandlerFrame

\* the socket's 'close' event: the handshake failed, or the session ended
SocketClose ==
  /\ coll.ws \in Live
  /\ coll' = onClose([coll EXCEPT !.ws = "closed"])
  /\ lastMsg' = NoMsg
  /\ HandlerFrame

\* the socket's 'message' event
onMessage(r) ==
  /\ coll.ws = "open"
  /\ coll' = [coll EXCEPT !.lastMessageAge = 0, !.badSeen = @ \/ Malformed(r)]
  /\ lastMsg' = [op |-> "message", raw |-> r, message |-> parseMessage(coll.kind, r),
                 emitted |-> TruthyMessage(parseMessage(coll.kind, r)),
                 before |-> ConnState(coll), after |-> ConnState(coll'),
                 afterBad |-> coll.badSeen]
  /\ HandlerFrame

\* the 'open' event of a socket that connect() replaced
OtherOpen(i) ==
  /\ i \in DOMAIN coll.others
  /\ coll.others[i] = "connecting"
  /\ coll' = onOpen([coll EXCEPT !.others[i] = "open"])
  /\ lastMsg' = [op |-> "open", socket |-> "other", subscribe |-> subscribe(coll'),
                 before |-> ConnState(coll), after |-> ConnState(coll'),
                 timer |-> coll'.heartbeatTimer]
  /\ HandlerFrame

\* the 'close' event of a socket that connect() replaced
OtherClose(i) ==
  /\ i \in DOMAIN coll.others
  /\ coll' = onClose([coll EXCEPT !.others = RemoveAt(@, i)])
  /\ lastMsg' = NoMsg
  /\ HandlerFrame

\* the 'message' event of a socket that connect() replaced
OtherMessage(i, r) ==
  /\ i \in DOMAIN coll.others
  /\ coll.others[i] = "open"
  /\ coll' = [coll EXCEPT !.lastMessageAge = 0]
  /\ lastMsg' = [op |-> "otherMessage", raw |-> r, message |-> parseMessage(coll.kind, r),
                 emitted |-> TruthyMessage(parseMessage(coll.kind, r)),
                 before |-> ConnState(coll), after |-> ConnState(coll')]
  /\ HandlerFrame

\* the setTimeout callback of handleReconnect
ReconnectTimerFire(i) ==
  /\ i \in DOMAIN coll.reconnectTimers
  /\ coll.reconnectTimers[i] = 0
  /\ coll' = reconnect([coll EXCEPT !.reconnectTimers = RemoveAt(@, i)])
  /\ lastMsg' = DisconnectCall("reconnect", [coll EXCEPT !.reconnectTimers = RemoveAt(@, i)])
  /\ HandlerFrame

\* the setInterval callback of startHeartbeat
HeartbeatFire ==
  /\ coll.heartbeatTimer = Num(0)
  /\ coll' = heartbeatCheck(coll)
  /\ lastMsg' = [op |-> "heartbeat", age |-> coll.lastMessageAge,
                 before |-> ConnState(coll), after |-> ConnState(coll'),
                 timer |-> coll'.heartbeatTimer,
                 sessions |-> Sessions(coll), kept |-> coll'.others]
  /\ HandlerFrame

\* one tick of time passes once the timers that are due have fired
CollTick ==
  /\ NothingDue(coll)
  /\ NothingDue(peer)
  /\ coll' = Tick(coll)
  /\ peer' = Tick(peer)
  /\ peerSeen' = <<>>
  /\ lastMsg' = NoMsg
  /\ UNCHANGED <<isRunning, notColl>>

(* The handlers of the other collector *)

PeerFrame == peerSeen' = <<>> /\ UNCHANGED <<coll, lastMsg, isRunning, notColl>>

PeerOpen ==
  /\ peer # NoPeer
  /\ peer.ws = "connecting"
  /\ peer' = onOpen([peer EXCEPT !.ws = "open"])
  /\ PeerFrame

PeerClose ==
  /\ peer # NoPeer
  /\ peer.ws \in Live
  /\ peer' = onClose([peer EXCEPT !.ws = "closed"])
  /\ PeerFrame

\* a message that yields a 'data' event, handed to processor.process()
PeerMessage(r) ==
  /\ peer # NoPeer
  /\ peer.ws = "open"
  /\ TruthyMessage(parseMessage(peer.kind, r))
  /\ peer' = [peer EXCEPT !.lastMessageAge = 0]
  /\ PeerFrame

PeerTimerFire(i) ==
  /\ peer # NoPeer
  /\ i \in DOMAIN peer.reconnectTimers
  /\ peer.reconnectTimers[i] = 0
  /\ peer' = reconnect([peer EXCEPT !.reconnectTimers = RemoveAt(@, i)])
  /\ PeerFrame

PeerHeartbeat ==
  /\ peer # NoPeer
  /\ peer.heartbeatTimer = Num(0)
  /\ peer' = heartbeatCheck(peer)
  /\ PeerFrame

\* a feed of well-formed events
EventMessage == [lead |-> "brace", json |-> "event"]

\* what a replaced socket still receives: an event, or text that is not JSON
OtherMessages == {EventMessage, [lead |-> "other", json |-> "invalid"]}

\* what the collector does whatever the messages are
SessionNext ==
  \/ PipelineStart
  \/ PipelineStop
  \/ SocketOpen
  \/ SocketClose
  \/ \E i \in DOMAIN coll.reconnectTimers : ReconnectTimerFire(i)
  \/ \E i \in DOMAIN coll.others : OtherOpen(i)
  \/ \E i \in DOMAIN coll.others : OtherClose(i)
  \/ HeartbeatFire
  \/ CollTick

CollNext ==
  \/ SessionNext
  \/ \E r \in RawMessages : onMessage(r)
  \/ \E i \in DOMAIN coll.others, r \in OtherMessages : OtherMessage(i, r)

\* two collectors started once: the handlers of each, on a feed of events
PairNext ==
  \/ PipelineStart
  \/ SocketOpen
  \/ SocketClose
  \/ onMessage(EventMessage)
  \/ \E i \in DOMAIN coll.reconnectTimers : ReconnectTimerFire(i)
  \/ HeartbeatFire
  \/ PeerOpen
  \/ PeerClose
  \/ PeerMessage(EventMessage)
  \/ \E i \in DOMAIN peer.reconnectTimers : PeerTimerFire(i)
  \/ PeerHeartbeat
  \/ CollTick

\* one collector started once, on a feed of events
BackoffNext ==
  \/ PipelineStart
  \/ SocketOpen
  \/ SocketClose
  \/ onMessage(EventMessage)
  \/ \E i \in DOMAIN coll.reconnectTimers : ReconnectTimerFire(i)
  \/ HeartbeatFire
  \/ CollTick

----------------------------------------------------------------------------
(* SofaScoreCollector: start(), stop() and the restart cycle of handleReconnect *)

SofaMaxReconnectAttempts == 2
MaxLaunches == 3
MaxNotices == 2

\* constructor(); a browser is named by the order of its launch, sessions and
\* pages by their browser; a task is a suspended start() call, either the one
\* the program makes or the one of a restart cycle (the timer callback of
\* handleReconnect, which awaits stop() and then start())
NewSofaCollector ==
  [kind |-> "sofa", browser |-> Null, page |-> Null, cdpSession |-> Null,
   isRunning |-> FALSE, reconnectAttempts |-> 0,
   maxReconnectAttempts |-> SofaMaxReconnectAttempts,
   reconnectTimers |-> 0,  \* setTimeout callbacks of handleReconnect not run yet
   tasks |-> <<>>,
   browsers |-> <<>>,      \* every browser launched: "open" or "closed"
   attached |-> {},        \* the sessions whose Network.webSocketClosed listener is live
   notices |-> 0,          \* Network.webSocketClosed notifications received
   delays |-> <<>>]        \* the delays scheduled since the last successful restart

\* `Math.min(1000 * Math.pow(2, this.reconnectAttempts), 30000)`
SofaDelay(attempts) == Min(1000 * 2 ^ attempts, 30000)

\* mutant: a reconnect is scheduled whatever the counter says
sofaHandleReconnectNoCap(c) ==
  [c EXCEPT !.reconnectAttempts = @ + 1,
            !.reconnectTimers = @ + 1,
            !.delays = Append(@, SofaDelay(c.reconnectAttempts + 1))]

\* SofaScoreCollector.handleReconnect, up to the setTimeout call
sofaHandleReconnect(c) ==
  IF CapReached(c)
    THEN c
    ELSE [c EXCEPT !.reconnectAttempts = @ + 1,
                   !.reconnectTimers = @ + 1,
                   !.delays = Append(@, SofaDelay(c.reconnectAttempts + 1))]

\* stop(), from `if (this.browser)`: browser.close() is called and awaited, or
\* there is nothing to close and stop() returns
closeBrowser(c, i) ==
  IF c.browser # Null
    THEN [c EXCEPT !.browsers[c.browser[2]] = "closed",
                   !.attached = @ \ {c.browser[2]},
                   !.tasks[i].pc = "close"]
    ELSE [c EXCEPT !.tasks[i].pc = "stopped"]

\* stop(), up to its first await
stopCall(c, i) ==
  IF c.cdpSession # Null
    THEN [c EXCEPT !.isRunning = FALSE,
                   !.attached = @ \ {c.cdpSession[2]},
                   !.tasks[i].pc = "detach"]
    ELSE closeBrowser([c EXCEPT !.isRunning = FALSE], i)

\* start() threw: the caller of the program gets the error; the timer callback
\* catches it and calls handleReconnect
startFailed(c, i) ==
  IF c.tasks[i].cycle
    THEN sofaHandleReconnect([c EXCEPT !.tasks = RemoveAt(@, i)])
    ELSE [c EXCEPT !.tasks = RemoveAt(@, i)]

\* start() returned: `this.reconnectAttempts = 0` in the timer callback
startReturned(c, i) ==
  IF c.tasks[i].cycle
    THEN [c EXCEPT !.isRunning = TRUE, !.reconnectAttempts = 0, !.delays = <<>>,
                   !.tasks = RemoveAt(@, i)]
    ELSE [c EXCEPT !.isRunning = TRUE, !.tasks = RemoveAt(@, i)]

SofaStep(c, op) ==
  /\ coll' = c
  /\ lastMsg' = [op |-> op, before |-> coll.reconnectAttempts,
                 after |-> c.reconnectAttempts]
  /\ UNCHANGED <<isRunning, peer, peerSeen, notColl>>

\* the program calls start(): `this.browser = await puppeteer.launch(...)`
SofaStartCall ==
  /\ coll.browsers = <<>>
  /\ SofaStep([coll EXCEPT !.browsers = <<"open">>,
                           !.tasks = <<[pc |-> "launch", cycle |-> FALSE, b |-> 1]>>],
              "start")

\* the 'Network.webSocketClosed' listener of a session
WebSocketClosed(b) ==
  /\ b \in coll.attached
  /\ coll.notices < MaxNotices
  /\ SofaStep(sofaHandleReconnect([coll EXCEPT !.notices = @ + 1]), "closed")

\* the setTimeout callback of handleReconnect, up to the first await of stop()
RestartTimerFire ==
  /\ coll.reconnectTimers > 0
  /\ SofaStep(stopCall([coll EXCEPT !.reconnectTimers = @ - 1,
                                    !.tasks = Append(@, [pc |-> "stop", cycle |-> TRUE,
                                                          b |-> 0])],
                       Len(coll.tasks) + 1),
              "timer")

\* stop(), after `await this.cdpSession.detach()`
StopDetached(i) ==
  /\ coll.tasks[i].pc = "detach"
  /\ SofaStep(closeBrowser([coll EXCEPT !.cdpSession = Null], i), "detached")

\* stop(), after `await this.browser.close()`
StopClosed(i) ==
  /\ coll.tasks[i].pc = "close"
  /\ SofaStep([coll EXCEPT !.browser = Null, !.page = Null, !.tasks[i].pc = "stopped"],
              "stopped")

\* the timer callback, after `await this.stop()`: start() up to puppeteer.launch
RestartLaunch(i) ==
  /\ coll.tasks[i].pc = "stopped"
  /\ Len(coll.browsers) < MaxLaunches
  /\ SofaStep([coll EXCEPT !.browsers = Append(@, "open"),
                           !.tasks[i] = [pc |-> "launch", cycle |-> TRUE,
                                         b |-> Len(coll.browsers) + 1]],
              "launch")

\* start(), after `await puppeteer.launch(...)` and `await this.browser.newPage()`
StartLaunched(i) ==
  /\ coll.tasks[i].pc = "launch"
  /\ SofaStep([coll EXCEPT !.browser = Num(coll.tasks[i].b),
                           !.page = Num(coll.tasks[i].b),
                           !.tasks[i].pc = "prepared"],
              "launched")

\* start(), after `await this.page.evaluateOnNewDocument(...)`:
\* `this.page.target().createCDPSession()` reads this.page again
StartPrepared(i) ==
  /\ coll.tasks[i].pc = "prepared"
  /\ SofaStep(IF coll.page = Null
                THEN startFailed(coll, i)
                ELSE [coll EXCEPT !.tasks[i].pc = "session", !.tasks[i].b = coll.page[2]],
              "prepared")

\* start(), after createCDPSession and Network.enable: the listeners are set
\* and `this.page.goto(...)` is called; a closed browser fails the calls
StartSession(i) ==
  /\ coll.tasks[i].pc = "session"
  /\ SofaStep(IF coll.browsers[coll.tasks[i].b] = "closed" \/ coll.page = Null
                THEN startFailed(coll, i)
                ELSE [coll EXCEPT !.cdpSession = Num(coll.tasks[i].b),
                                  !.attached = @ \cup {coll.tasks[i].b},
                                  !.tasks[i].pc = "goto", !.tasks[i].b = coll.page[2]],
              "session")

\* start(), after goto and extractLiveMatches: the page loaded, or goto threw
\* (the 30 s timeout, a browser that was closed)
StartLoaded(i, ok) ==
  /\ coll.tasks[i].pc = "goto"
  /\ ok => coll.browsers[coll.tasks[i].b] = "open"
  /\ SofaStep(IF ok THEN startReturned(coll, i) ELSE startFailed(coll, i),
              IF ok THEN "started" ELSE "failed")

RestartNext ==
  \/ SofaStartCall
  \/ \E b \in coll.attached : WebSocketClosed(b)
  \/ RestartTimerFire
  \/ \E i \in DOMAIN coll.tasks : StopDetached(i)
  \/ \E i \in DOMAIN coll.tasks : StopClosed(i)
  \/ \E i \in DOMAIN coll.tasks : RestartLaunch(i)
  \/ \E i \in DOMAIN coll.tasks : StartLaunched(i)
  \/ \E i \in DOMAIN coll.tasks : StartPrepared(i)
  \/ \E i \in DOMAIN coll.tasks : StartSession(i)
  \/ \E i \in DOMAIN coll.tasks, ok \in BOOLEAN : StartLoaded(i, ok)

\* the handlers of the collector that was constructed
AttemptsNext ==
  \/ coll.kind = "base" /\ BackoffNext
  \/ coll.kind = "sofa" /\ RestartNext

----------------------------------------------------------------------------
(* eventProcessor/rules.js: the rules that keep state between events *)

MaxFed == 4

EmptyMap == [k \in {} |-> 0]
MapGet(map, k, default) == IF k \in DOMAIN map THEN map[k] ELSE default
MapSet(map, k, v) == [x \in DOMAIN map \cup {k} |-> IF x = k THEN v ELSE map[x]]

\* the events fed to hatTrickRule: goals of two matches (provider ids of the
\* form "7" and "7:1"), their scorer known or not, and an event that is no goal
HatEvents ==
  [eventType : {Str("goal")}, matchId : {Str("7"), Str("7:1")}, minute : {Num(30)},
   player : {Undef, Str("Silva"), Str("1:Silva")}]
  \cup {[eventType |-> Str("yellow_card"), matchId |-> Str("7"), minute |-> Num(30),
         player |-> Str("Silva")]}

\* the events fed to multipleCardsRule: cards of one match at several minutes (or
\* with no minute), a card of another match, and an event that is no card
CardEvents ==
  [eventType : {Str("yellow_card"), Str("red_card")}, matchId : {Str("7")},
   minute : {Undef, Num(5), Num(10), Num(15), Num(16)}, player : {Undef}]
  \cup {[eventType |-> Str("yellow_card"), matchId |-> Str("8"), minute |-> Num(10),
         player |-> Undef],
        [eventType |-> Str("goal"), matchId |-> Str("7"), minute |-> Num(10),
         player |-> Undef]}

\* `${event.matchId}:${event.goalData.player}`
hatTrickKey(e) == toStr(e.matchId) \o ":" \o toStr(e.player)

\* count === 3
hatTrickReached(count) == count = 3

\* hatTrickRule(event): the result, and the counters after the call
hatTrickRule(goals, e) ==
  IF e.eventType # Str("goal") \/ ~Truthy(e.player)
    THEN [result |-> RuleNull, state |-> goals]
    ELSE LET key == hatTrickKey(e)
             count == MapGet(goals, key, 0) + 1
         IN [result |-> IF hatTrickReached(count)
                          THEN [kind |-> "value", type |-> "hat_trick", player |-> e.player]
                          ELSE RuleNull,
             state |-> MapSet(goals, key, count)]

\* `event.minute - c.minute <= 10`: NaN, and so false, unless both are numbers
\* (null counts as 0)
IsNumeric(v) == v[1] \in {"num", "null"}
ToNumber(v) == IF v[1] = "num" THEN v[2] ELSE 0

\* mutant: the window is open at 10 minutes
InWindowStrict(m, c) == IsNumeric(m) /\ IsNumeric(c) /\ ToNumber(m) - ToNumber(c) < 10

InWindow(m, c) == IsNumeric(m) /\ IsNumeric(c) /\ ToNumber(m) - ToNumber(c) <= 10

\* multipleCardsRule(event): the result, and the histories after the call
multipleCardsRule(history, e) ==
  IF e.eventType # Str("yellow_card") /\ e.eventType # Str("red_card")
    THEN [result |-> RuleNull, state |-> history]
    ELSE LET cards == Append(MapGet(history, e.matchId, <<>>),
                             [minute |-> e.minute, type |-> e.eventType])
             recentCards == {i \in DOMAIN cards : InWindow(e.minute, cards[i].minute)}
         IN [result |-> IF Cardinality(recentCards) >= 3
                          THEN [kind |-> "value", type |-> "card_storm",
                                count |-> Cardinality(recentCards)]
                          ELSE RuleNull,
             state |-> MapSet(history, e.matchId, cards)]

FeedHatTrick(e) ==
  /\ Len(ruleLog) < MaxFed
  /\ playerGoals' = hatTrickRule(playerGoals, e).state
  /\ ruleLog' = Append(ruleLog, [event |-> e, result |-> hatTrickRule(playerGoals, e).result])
  /\ UNCHANGED <<cardHistory, notRule>>

FeedCards(e) ==
  /\ Len(ruleLog) < MaxFed
  /\ cardHistory' = multipleCardsRule(cardHistory, e).state
  /\ ruleLog' = Append(ruleLog, [event |-> e, result |-> multipleCardsRule(cardHistory, e).result])
  /\ UNCHANGED <<playerGoals, notRule>>

\* the events of a match from its first goal to its end, and a goal of another
\* match
StatefulEvents ==
  {[eventType |-> Str("goal"), matchId |-> Str("7"), minute |-> Num(30),
    player |-> Str("Silva")],
   [eventType |-> Str("yellow_card"), matchId |-> Str("7"), minute |-> Num(40),
    player |-> Undef],
   [eventType |-> Str("match_end"), matchId |-> Str("7"), minute |-> Num(90),
    player |-> Undef],
   [eventType |-> Str("goal"), matchId |-> Str("8"), minute |-> Num(30),
    player |-> Str("Silva")]}

\* two EventProcessor instances, each with multipleCardsRule and hatTrickRule of
\* defaultRules registered
Processors == {"a", "b"}

\* what the two rules return for an event
StatefulResults(goals, history, e) ==
  [cards |-> multipleCardsRule(history, e).result, hat |-> hatTrickRule(goals, e).result]

\* processor p evaluates its rules on an event: the two functions are the ones
\* rules.js exports, each closed over the one Map its module-level IIFE created
ApplyStatefulRules(p, e) ==
  /\ Len(ruleLog) < MaxFed
  /\ cardHistory' = multipleCardsRule(cardHistory, e).state
  /\ playerGoals' = hatTrickRule(playerGoals, e).state
  /\ ruleLog' = Append(ruleLog, [by |-> p, event |-> e,
                                 result |-> StatefulResults(playerGoals, cardHistory, e)])
  /\ UNCHANGED notRule

StatefulNext == \E p \in Processors, e \in StatefulEvents : ApplyStatefulRules(p, e)

HatTrickNext == \E e \in HatEvents : FeedHatTrick(e)
CardsNext == \E e \in CardEvents : FeedCards(e)

----------------------------------------------------------------------------
(* SofaScoreCollector.handleMatchUpdate: goals and cards out of score updates *)

MaxUpdates == 2

MapDelete(map, k) == [x \in DOMAIN map \ {k} |-> map[x]]

\* data.cardsCode "XY": X the home side's card, Y the away side's (1 yellow, 2 red)
CardsCode(x, y) == <<"code", x, y>>

SofaUpdate(id, home, away, cardsCode, status, teams) ==
  [id |-> id, home |-> home, away |-> away, cardsCode |-> cardsCode, status |-> status,
   teams |-> teams]

\* the updates of the feed: scores of match 1 (a side may be missing), cards, the
\* end of the match, another match, an update with no id
SofaUpdates ==
  {SofaUpdate(Num(1), h, a, Undef, Undef, FALSE) :
     h \in {Undef, Num(0), Num(1), Num(2)}, a \in {Undef, Num(0), Num(1)}}
  \cup {SofaUpdate(Num(1), Undef, Undef, CardsCode(1, 0), Undef, FALSE),
        SofaUpdate(Num(1), Num(1), Num(0), CardsCode(0, 2), Undef, TRUE),
        SofaUpdate(Num(1), Num(0), Num(0), Undef, Str("finished"), FALSE),
        SofaUpdate(Num(2), Num(0), Num(0), Undef, Undef, TRUE),
        SofaUpdate(Undef, Num(1), Num(0), Undef, Undef, FALSE)}

\* `a ?? b`
Nullish(a, b) == IF a \in {Undef, Null} THEN b ELSE a

\* the state handleMatchUpdate works on
SofaState == [scores |-> previousScores, info |-> matchInfo, events |-> sofaEvents,
              tasks |-> sofaTasks]

\* the call stops at an await
Suspend(s, t, pc) == [s EXCEPT !.tasks = @ \cup {[t EXCEPT !.pc = pc]}]

\* matchDetails.homeTeam / awayTeam: the names of the update or of the lookup,
\* or what setFallbackMatchInfo stored
TeamName(details, side) ==
  IF details = "fallback" THEN Str("Unknown") ELSE Str(side \o " team")

\* this.emit('event', event), the event as it is at that moment
SofaEmit(s, t, type, team) ==
  [s EXCEPT !.events = Append(@, [eventType |-> type, team |-> team, matchId |-> t.data.id,
                                  score |-> t.score, update |-> t.k,
                                  homeTeam |-> TeamName(t.details, "home"),
                                  awayTeam |-> TeamName(t.details, "away")])]

\* `if (data['status.type'] === 'finished') this.previousScores.delete(matchId)`
StatusBlock(s, t) ==
  IF t.data.status = Str("finished")
    THEN [s EXCEPT !.scores = MapDelete(@, t.data.id)]
    ELSE s

HasCard(code, n) == code[2] = n \/ code[3] = n
CardTeam(code, n) == IF code[2] = n THEN "home" ELSE "away"

\* `if (cardsCode.includes('2'))`, to its await
RedBlock(s, t) ==
  IF HasCard(t.data.cardsCode, 2) THEN Suspend(s, t, "enrichRed") ELSE StatusBlock(s, t)

\* `if (data.cardsCode)`, to its first await
CardsBlock(s, t) ==
  IF ~Truthy(t.data.cardsCode) THEN StatusBlock(s, t)
  ELSE IF HasCard(t.data.cardsCode, 1) THEN Suspend(s, t, "enrichYellow")
  ELSE RedBlock(s, t)

\* mutant: a goal is seen only when the score rises by two
GoalSideByTwo(prev, cur) ==
  IF cur.home[2] > prev.home[2] + 1 THEN "home"
  ELSE IF cur.away[2] > prev.away[2] + 1 THEN "away"
  ELSE "none"

\* `if (currentScore.home > previousScore.home) ... else if (currentScore.away > ...)`
GoalSide(prev, cur) ==
  IF cur.home[2] > prev.home[2] THEN "home"
  ELSE IF cur.away[2] > prev.away[2] THEN "away"
  ELSE "none"

\* the score block, to its await or through `this.previousScores.set(...)`
ScoreBlock(s, t) ==
  IF t.data.home = Undef /\ t.data.away = Undef THEN CardsBlock(s, t)
  ELSE LET cur == [home |-> Nullish(t.data.home, Num(0)),
                   away |-> Nullish(t.data.away, Num(0))]
           side == IF t.data.id \in DOMAIN s.scores
                     THEN GoalSide(s.scores[t.data.id], cur)
                     ELSE "none"
       IN IF side = "none"
            THEN CardsBlock([s EXCEPT !.scores = MapSet(@, t.data.id, cur)], t)
            ELSE Suspend(s, [t EXCEPT !.cur = cur, !.team = side,
                                      !.score = Str(toStr(cur.home) \o "-" \o toStr(cur.away))],
                         "enrichGoal")

\* handleMatchUpdate(data, timestamp), from its entry to its first await or its end
SofaBegin(s, t) ==
  IF ~Truthy(t.data.id) THEN s
  ELSE LET id == t.data.id
           s1 == IF t.data.teams /\ id \notin DOMAIN s.info
                   THEN [s EXCEPT !.info = MapSet(@, id, "ws")]
                   ELSE s
       IN IF id \notin DOMAIN s1.info
            THEN Suspend(s1, t, "fetch")
            ELSE ScoreBlock(s1, [t EXCEPT !.details = s1.info[id]])

\* handleMatchUpdate resumed after an await, to its next await or its end;
\* `found`: what the match-details lookup returned
SofaAfterAwait(s, t, found) ==
  CASE t.pc = "fetch" ->
         ScoreBlock([s EXCEPT !.info = MapSet(@, t.data.id, IF found THEN "api" ELSE "fallback")],
                    [t EXCEPT !.details = IF found THEN "api" ELSE "fallback"])
    [] t.pc = "enrichGoal" ->
         CardsBlock([SofaEmit(s, t, "goal", t.team)
                       EXCEPT !.scores = MapSet(@, t.data.id, t.cur)], t)
    [] t.pc = "enrichYellow" ->
         RedBlock(SofaEmit(s, t, "yellow_card", CardTeam(t.data.cardsCode, 1)), t)
    [] OTHER ->
         StatusBlock(SofaEmit(s, t, "red_card", CardTeam(t.data.cardsCode, 2)), t)

SofaSettle(s) ==
  /\ previousScores' = s.scores
  /\ matchInfo' = s.info
  /\ sofaEvents' = s.events
  /\ sofaTasks' = s.tasks

\* a frame of the feed: handleMatchUpdate(jsonData, timestamp), not awaited
handleMatchUpdate(d) ==
  /\ Len(sofaLog) < MaxUpdates
  /\ SofaSettle(SofaBegin(SofaState,
                          [k |-> Len(sofaLog) + 1, pc |-> "run", data |-> d,
                           cur |-> [home |-> Undef, away |-> Undef], team |-> "",
                           score |-> Undef, details |-> "none"]))
  /\ sofaLog' = Append(sofaLog, d)
  /\ sofaOverlap' = (sofaOverlap \/ sofaTasks # {})
  /\ UNCHANGED notSofa

\* the lookup a suspended call awaits has returned
SofaResume(t, found) ==
  /\ t \in sofaTasks
  /\ SofaSettle(SofaAfterAwait([SofaState EXCEPT !.tasks = @ \ {t}], t, found))
  /\ UNCHANGED <<sofaLog, sofaOverlap, notSofa>>

\* `rawEvent.name`: the value of a property, undefined when the object has none
\* of that name
Field(obj, name) == IF name \in DOMAIN obj THEN obj[name] ELSE Undef

\* the event object handleMatchUpdate emits: timestamp, matchId and source set
\* when it is built, eventType, team, score and minute by the goal or card block
\* (the minute of an update that carries no clock field is null)
RawEvent(ev) ==
  [timestamp |-> Str("iso"), matchId |-> ev.matchId, source |-> Str("sofascore"),
   eventType |-> Str(ev.eventType), team |-> Str(ev.team), score |-> ev.score,
   minute |-> Null]

\* the object the 'event' listener of the entry point hands to process()
WireEvent(rawEvent) ==
  [nil |-> FALSE,
   eventType |-> Field(rawEvent, "type"),
   matchId |-> Field(rawEvent, "matchId"),
   score |-> Field(rawEvent, "score"),
   minute |-> Field(rawEvent, "minute"),
   timestamp |-> Field(rawEvent, "timestamp"),
   source |-> Field(rawEvent, "source")]

\* `await processor.process(...)` in the 'event' listener: the call and, its
\* own await being resolved, its continuation, which run before the next lookup
\* of the collector returns
ProcessAtOnce(e) ==
  LET call == CallOutcome(eventCache, cacheTimers, e)
      r == processEventType(e, enabledEvents)
  IN /\ lastCall' = call
     /\ IF call.outcome = "admitted"
          THEN /\ eventCache' = cacheEvent(eventCache, e)
               /\ cacheTimers' = cacheTimers \cup {CacheTimer(e, now)}
               /\ admits' = Append(admits, Admission(e, now, cleared))
               /\ alerts' = IF r.kind = "alert" THEN Append(alerts, r) ELSE alerts
               /\ sink' = IF r.kind = "alert" THEN HandToSink(sink, r) ELSE sink
          ELSE UNCHANGED <<eventCache, cacheTimers, admits, alerts, sink>>
     /\ UNCHANGED <<enabledEvents, rules, procPending, rulePass, passLog, cleared, regLog>>

\* the lookup a suspended call awaits has returned, with the 'event' listener
\* of the entry point registered: this.emit('event', event) runs the listener
WiredResume(t, found) ==
  /\ t \in sofaTasks
  /\ LET s == SofaAfterAwait([SofaState EXCEPT !.tasks = @ \ {t}], t, found)
     IN /\ SofaSettle(s)
        /\ IF Len(s.events) > Len(sofaEvents)
             THEN ProcessAtOnce(WireEvent(RawEvent(s.events[Len(s.events)])))
             ELSE UNCHANGED procVars
  /\ UNCHANGED <<sofaLog, sofaOverlap, now, collVars, ruleVars, pureCall>>

WiredNext ==
  \/ \E d \in SofaUpdates : handleMatchUpdate(d)
  \/ \E t \in sofaTasks : \E found \in (IF t.pc = "fetch" THEN BOOLEAN ELSE {TRUE}) :
       WiredResume(t, found)

SofaNext ==
  \/ \E d \in SofaUpdates : handleMatchUpdate(d)
  \/ \E t \in sofaTasks : \E found \in (IF t.pc = "fetch" THEN BOOLEAN ELSE {TRUE}) :
       SofaResume(t, found)

----------------------------------------------------------------------------
(* SofaScoreCollector.extractMinute *)

\* data.statusDescription, as its characters
MinuteTexts ==
  {Undef, <<>>, <<"H", "T">>, <<"7">>, <<"0", "7">>, <<"9", "0">>, <<"4", "5", "+", "2">>}

\* data['time.currentPeriodStartTimestamp'], in seconds
PeriodStarts == {Undef, Num(0), Num(100), Num(3000)}

\* data['status.code']: first half, second half, another period
StatusCodes == {Num(6), Num(7), Num(31)}

\* Date.now(), in milliseconds
Clocks == {99999, 100000, 159999, 160000, 2799999, 2800000, 2860000, 2899000, 9000000}

MinuteData == [statusDescription : MinuteTexts, periodStart : PeriodStarts,
               statusCode : StatusCodes]

IsDigit(c) == c \in {"0", "1", "2", "3", "4", "5", "6", "7", "8", "9"}
DigitValue(c) == CHOOSE d \in 0..9 : DigitStr(d) = c

\* /^\d+$/.test(text)
AllDigits(text) == text # <<>> /\ \A i \in DOMAIN text : IsDigit(text[i])

\* parseInt(text, 10) of a text of digits
RECURSIVE ParseInt(_)
ParseInt(text) ==
  IF text = <<>> THEN 0
  ELSE 10 * ParseInt(SubSeq(text, 1, Len(text) - 1)) + DigitValue(text[Len(text)])

\* `data.statusDescription && /^\d+$/.test(data.statusDescription)`
ExplicitMinute(data) ==
  data.statusDescription # Undef /\ AllDigits(data.statusDescription)

\* Math.floor(Math.floor(Date.now() / 1000 - start) / 60)
ElapsedMinutes(start, clock) == ((clock \div 1000) - start) \div 60

\* `if (data['status.code'] === 7) return Math.min(45 + minutes, 90);
\*  return Math.min(minutes, 45)`
DerivedMinute(data, clock) ==
  LET minutes == ElapsedMinutes(data.periodStart[2], clock)
  IN IF data.statusCode = Num(7) THEN Min(45 + minutes, 90) ELSE Min(minutes, 45)

extractMinute(data, clock) ==
  IF ExplicitMinute(data) THEN Num(ParseInt(data.statusDescription))
  ELSE IF Truthy(data.periodStart) THEN Num(DerivedMinute(data, clock))
  ELSE Null

\* this.extractMinute(data)
ExtractMinuteCall ==
  /\ pureCall.fn = "extractMinute"
  /\ ~pureCall.done
  /\ pureCall' = [pureCall EXCEPT !.done = TRUE, !.result = extractMinute(pureCall.data, now)]
  /\ UNCHANGED notPure

MinuteNext == ExtractMinuteCall

----------------------------------------------------------------------------
(* eventProcessor/rules.js: the rules on the minute of a goal *)

\* the events handed to the two rules: goals and cards, their minute a number,
\* null (what extractMinute returns when the update has no clock field) or
\* undefined
ThresholdEvents ==
  [eventType : {Str("goal"), Str("yellow_card"), Str("red_card")},
   minute : {Undef, Null} \cup {Num(n) : n \in {0, 1, 14, 15, 16, 45, 79, 80, 81, 90, 120}}]

\* `event.minute >= n`, the minute going through ToNumber as in JsLessEq
JsGreaterEq(v, n) ==
  CASE v[1] = "num" -> v[2] >= n
    [] v[1] = "null" -> 0 >= n
    [] OTHER -> FALSE

lateGoalRule(e) ==
  IF e.eventType = Str("goal") /\ JsGreaterEq(e.minute, 80)
    THEN RuleValue("late_goal") ELSE RuleNull

\* earlyGoalRule(event) or lateGoalRule(event)
ThresholdCall ==
  /\ pureCall.fn \in {"earlyGoalRule", "lateGoalRule"}
  /\ ~pureCall.done
  /\ pureCall' = [pureCall EXCEPT
                    !.done = TRUE,
                    !.result = IF pureCall.fn = "earlyGoalRule"
                                 THEN earlyGoalRule(pureCall.data)
                                 ELSE lateGoalRule(pureCall.data)]
  /\ UNCHANGED notPure

ThresholdNext == ThresholdCall

----------------------------------------------------------------------------
(* BwinCollector / Bet365Collector: normalizeEvent and mapEventType *)

\* the provider's message as JSON.parse returns it: its type under `type` or
\* `eventType`, the score and the home team when the provider sent them
ProviderEvents ==
  [type : {Undef, Str("event"), Str("goal"), Str("red-card"), Str("yellowCard"),
           Str("matchStart"), Str("corner")},
   eventType : {Undef, Str("goal"), Str("redCard"), Str("matchEnd"), Str("substitution")},
   score : {Undef, Obj},
   homeTeam : {Undef, Str("Home FC")}]

\* BwinCollector.parseMessage normalizes the messages whose type is 'event',
\* Bet365Collector.parseMessage every JSON message
NormalizeCalls ==
  {c \in [fn : {"bwin.normalizeEvent", "bet365.normalizeEvent"}, data : ProviderEvents,
          done : {FALSE}, result : {Undef}] :
     c.fn = "bwin.normalizeEvent" => c.data.type = Str("event")}

\* `a || b`
JsOr(a, b) == IF Truthy(a) THEN a ELSE b

\* the `mapping` object of BwinCollector.mapEventType
BwinMapping ==
  ("goal" :> "goal") @@ ("redCard" :> "red_card") @@ ("yellowCard" :> "yellow_card")
    @@ ("matchStart" :> "match_start") @@ ("matchEnd" :> "match_end")

\* the `mapping` object of Bet365Collector.mapEventType
Bet365Mapping ==
  ("goal" :> "goal") @@ ("red-card" :> "red_card") @@ ("yellow-card" :> "yellow_card")
    @@ ("redCard" :> "red_card") @@ ("yellowCard" :> "yellow_card")

\* `mapping[type] || type`
mapEventType(mapping, type) ==
  IF type[1] = "str" /\ type[2] \in DOMAIN mapping THEN Str(mapping[type[2]]) ELSE type

\* `{ home: 0, away: 0 }`
ZeroScore == <<"score", 0, 0>>

\* BwinCollector.normalizeEvent(event)
normalizeEventBwin(event) ==
  [source |-> Str("bwin"),
   eventType |-> mapEventType(BwinMapping, JsOr(event.eventType, event.type)),
   homeTeam |-> event.homeTeam,
   score |-> JsOr(event.score, ZeroScore)]

\* Bet365Collector.normalizeEvent(event)
normalizeEventBet365(event) ==
  [source |-> Str("bet365"),
   eventType |-> mapEventType(Bet365Mapping, JsOr(event.type, event.eventType)),
   homeTeam |-> event.homeTeam,
   score |-> JsOr(event.score, ZeroScore)]

\* this.normalizeEvent(message)
NormalizeCall ==
  /\ pureCall.fn \in {"bwin.normalizeEvent", "bet365.normalizeEvent"}
  /\ ~pureCall.done
  /\ pureCall' = [pureCall EXCEPT
                    !.done = TRUE,
                    !.result = IF pureCall.fn = "bwin.normalizeEvent"
                                 THEN normalizeEventBwin(pureCall.data)
                                 ELSE normalizeEventBet365(pureCall.data)]
  /\ UNCHANGED notPure

NormalizeNext == NormalizeCall

----------------------------------------------------------------------------
(* ZapParser.isMatchEvent *)

UpperCase == <<"A", "B", "C", "D", "E", "F", "G", "H", "I", "J", "K", "L", "M",
               "N", "O", "P", "Q", "R", "S", "T", "U", "V", "W", "X", "Y", "Z">>
LowerCase == <<"a", "b", "c", "d", "e", "f", "g", "h", "i", "j", "k", "l", "m",
               "n", "o", "p", "q", "r", "s", "t", "u", "v", "w", "x", "y", "z">>

\* String.prototype.toLowerCase, a string being the sequence of its characters
toLowerCase(str) ==
  [i \in DOMAIN str |->
     IF \E k \in DOMAIN UpperCase : UpperCase[k] = str[i]
       THEN LowerCase[CHOOSE k \in DOMAIN UpperCase : UpperCase[k] = str[i]]
       ELSE str[i]]

\* str.startsWith(prefix)
startsWith(str, prefix) ==
  Len(prefix) <= Len(str) /\ SubSeq(str, 1, Len(prefix)) = prefix

\* str.includes(part)
includes(str, part) ==
  \E i \in 1..(Len(str) - Len(part) + 1) : SubSeq(str, i, i + Len(part) - 1) = part

\* the topics of the captured messages: the time update, a session, a match,
\* a match whose id holds the letters of "time", and topics in lower case
ZapTopics ==
  {<<"_", "_", "t", "i", "m", "e">>, <<"S", "_", "F", "0">>, <<"I", "1">>,
   <<"M", "_", "1">>, <<"s", "_", "1">>, <<>>}

\* the data object of a zap message, by its keys
ZapData(keys) == <<"obj", keys>>
ZapKeySets == {ZapData(keys) : keys \in SUBSET {"EV", "SC", "IT", "MG"}}

\* what ZapParser.parse returns: a zap message with its topic and data, or a
\* message of another type (malformed ones keep the topic, none has data)
ParsedMessages ==
  [type : {"zap"}, topic : ZapTopics, data : ZapKeySets]
  \cup [type : {"malformed"}, topic : ZapTopics, data : {Undef}]
  \cup [type : {"connection", "unknown", "error"}, topic : {Undef}, data : {Undef}]

EventKeys == {"EV", "SC", "GO", "RC", "YC", "PS", "MG"}

\* ZapParser.isMatchEvent(parsed)
isMatchEvent(parsed) ==
  IF parsed.type # "zap" THEN FALSE
  ELSE LET topic == IF parsed.topic = Undef THEN <<>> ELSE toLowerCase(parsed.topic)
       IN IF includes(topic, <<"t", "i", "m", "e">>) THEN FALSE
          ELSE IF startsWith(topic, <<"I">>) \/ startsWith(topic, <<"S", "_">>) THEN FALSE
          ELSE LET data == IF parsed.data = Undef THEN ZapData({}) ELSE parsed.data
               IN \E key \in EventKeys : key \in data[2]

\* ZapParser.isMatchEvent(parsed)
IsMatchEventCall ==
  /\ pureCall.fn = "isMatchEvent"
  /\ ~pureCall.done
  /\ pureCall' = [pureCall EXCEPT !.done = TRUE, !.result = isMatchEvent(pureCall.data)]
  /\ UNCHANGED notPure

ZapNext == IsMatchEventCall

----------------------------------------------------------------------------
(* Specifications: one per component, the other components left idle *)

vars == <<now, procVars, collVars, ruleVars, sofaVars, pureCall>>

CollIdle ==
  /\ coll = NewCollector("base", "valid")
  /\ isRunning = FALSE
  /\ lastMsg = NoMsg
  /\ peer = NoPeer
  /\ peerSeen = <<>>

RulesIdle ==
  /\ playerGoals = EmptyMap
  /\ cardHistory = EmptyMap
  /\ ruleLog = <<>>

SofaIdle ==
  /\ previousScores = EmptyMap
  /\ matchInfo = EmptyMap
  /\ sofaTasks = {}
  /\ sofaEvents = <<>>
  /\ sofaLog = <<>>
  /\ sofaOverlap = FALSE

NoPure == [fn |-> "none"]
Quiet == CollIdle /\ RulesIdle /\ SofaIdle
Idle == Quiet /\ pureCall = NoPure

InitProc == now = 0 /\ ProcInit /\ Idle
SpecProc == InitProc /\ [][ProcNext]_vars

InitSink == now = 0 /\ ProcInit /\ Idle
SpecSink == InitSink /\ [][SinkNext]_vars

InitRules == now = 0 /\ ProcInit /\ Idle
SpecRules == InitRules /\ [][RulesNext]_vars

InitRegistry == now = 0 /\ ProcFields /\ regLog = EmptyLog /\ Idle
SpecRegistry == InitRegistry /\ [][RegistryNext]_vars

InitColl ==
  /\ now = 0
  /\ ProcInit
  /\ coll \in {NewCollector(k, u) : k \in CollectorKinds, u \in Urls}
  /\ isRunning = FALSE
  /\ lastMsg = NoMsg
  /\ peer = NoPeer
  /\ peerSeen = <<>>
  /\ RulesIdle
  /\ SofaIdle
  /\ pureCall = NoPure
SpecColl == InitColl /\ [][CollNext]_vars

\* pipeline.collectors holds two collectors
InitPair ==
  /\ now = 0
  /\ ProcInit
  /\ coll \in {NewCollector("bwin", u) : u \in Urls}
  /\ peer = NewCollector("bet365", "valid")
  /\ peerSeen = <<>>
  /\ isRunning = FALSE
  /\ lastMsg = NoMsg
  /\ RulesIdle
  /\ SofaIdle
  /\ pureCall = NoPure
SpecPair == InitPair /\ [][PairNext]_vars

\* a collector constructed with options.maxReconnectAttempts = BackoffAttempts
InitBackoff ==
  /\ now = 0
  /\ ProcInit
  /\ coll \in {[NewCollector("base", u) EXCEPT !.maxReconnectAttempts = BackoffAttempts] :
                 u \in Urls}
  /\ isRunning = FALSE
  /\ lastMsg = NoMsg
  /\ peer = NoPeer
  /\ peerSeen = <<>>
  /\ RulesIdle
  /\ SofaIdle
  /\ pureCall = NoPure
SpecBackoff == InitBackoff /\ [][BackoffNext]_vars

\* `new SofaScoreCollector()`
InitRestart ==
  /\ now = 0
  /\ ProcInit
  /\ coll = NewSofaCollector
  /\ isRunning = FALSE
  /\ lastMsg = NoMsg
  /\ peer = NoPeer
  /\ peerSeen = <<>>
  /\ RulesIdle
  /\ SofaIdle
  /\ pureCall = NoPure
SpecRestart == InitRestart /\ [][RestartNext]_vars

\* a BaseCollector constructed with options.maxReconnectAttempts =
\* BackoffAttempts, or a SofaScoreCollector
InitAttempts ==
  /\ now = 0
  /\ ProcInit
  /\ coll \in {[NewCollector("base", u) EXCEPT !.maxReconnectAttempts = BackoffAttempts] :
                 u \in Urls} \cup {NewSofaCollector}
  /\ isRunning = FALSE
  /\ lastMsg = NoMsg
  /\ peer = NoPeer
  /\ peerSeen = <<>>
  /\ RulesIdle
  /\ SofaIdle
  /\ pureCall = NoPure
SpecAttempts == InitAttempts /\ [][AttemptsNext]_vars

InitStateful == now = 0 /\ ProcInit /\ Idle
SpecStateful == InitStateful /\ [][StatefulNext]_vars

InitNormalize ==
  /\ now = 0
  /\ ProcInit
  /\ Quiet
  /\ pureCall \in NormalizeCalls
SpecNormalize == InitNormalize /\ [][NormalizeNext]_vars

InitZap ==
  /\ now = 0
  /\ ProcInit
  /\ Quiet
  /\ pureCall \in [fn : {"isMatchEvent"}, data : ParsedMessages, done : {FALSE},
                    result : {Undef}]
SpecZap == InitZap /\ [][ZapNext]_vars

InitHatTrick == now = 0 /\ ProcInit /\ Idle
SpecHatTrick == InitHatTrick /\ [][HatTrickNext]_vars

InitCards == now = 0 /\ ProcInit /\ Idle
SpecCards == InitCards /\ [][CardsNext]_vars

\* the clock is Date.now() in milliseconds here
InitMinute ==
  /\ now \in Clocks
  /\ ProcInit
  /\ Quiet
  /\ pureCall \in [fn : {"extractMinute"}, data : MinuteData, done : {FALSE}, result : {Undef}]
SpecMinute == InitMinute /\ [][MinuteNext]_vars

\* the entry point: `new EventProcessor()` and the collector, wired
InitWired ==
  /\ now = 0
  /\ ProcEmpty /\ enabledEvents = DefaultEnabled /\ regLog = NoLog
  /\ Idle
SpecWired == InitWired /\ [][WiredNext]_vars

InitThreshold ==
  /\ now = 0
  /\ ProcInit
  /\ Quiet
  /\ pureCall \in [fn : {"earlyGoalRule", "lateGoalRule"}, data : ThresholdEvents,
                    done : {FALSE}, result : {Undef}]
SpecThreshold == InitThreshold /\ [][ThresholdNext]_vars

InitSofa == now = 0 /\ ProcInit /\ Idle
SpecSofa == InitSofa /\ [][SofaNext]_vars

----------------------------------------------------------------------------
(* Claims about the dedup gate *)

AdmitsOf(k) == {i \in DOMAIN admits : admits[i].key = k}
ValidKeys == {Key(e) : e \in {x \in ProcEvents : MissingCount(x) = 0}}
TimerPending(k) == \E t \in cacheTimers : t.key = k

\* an admitted fingerprint stays in the cache for at least cacheTimeout
C1_WindowInv ==
  \A i \in DOMAIN admits :
    now < admits[i].at + CacheTimeout =>
      admits[i].key \in DOMAIN eventCache /\ ~admits[i].evicted

\* two admissions of one fingerprint are at least cacheTimeout apart
C1_OncePerWindow ==
  \A i, j \in DOMAIN admits :
    (i < j /\ admits[i].key = admits[j].key) =>
      admits[j].at >= admits[i].at + CacheTimeout

\* a fingerprint is cached exactly while its expiry timer is pending
C1_TimerInv == \A k \in ValidKeys : k \in DOMAIN eventCache <=> TimerPending(k)

\* a call is dropped as a duplicate only while the timer of an earlier admission
\* of its fingerprint is pending, and is admitted once that timer has fired
C1_LastCall ==
  /\ lastCall.outcome = "duplicate" =>
       TimerPending(lastCall.key) /\ AdmitsOf(lastCall.key) # {}
  /\ lastCall.outcome = "admitted" =>
       /\ admits[Len(admits)].key = lastCall.key
       /\ admits[Len(admits)].at = now
       /\ ~admits[Len(admits)].evicted
       /\ lastCall.key \in DOMAIN eventCache
       /\ procPending # <<>> /\ Key(procPending[Len(procPending)].event) = lastCall.key

\* only an admitted call is processed: per fingerprint, no more results (emitted
\* or still to be emitted) than admissions
C1_Processed ==
  \A k \in ValidKeys :
    Cardinality({i \in DOMAIN alerts : Key(alerts[i].raw) = k})
      + Cardinality({i \in DOMAIN procPending : Key(procPending[i].event) = k})
      <= Cardinality(AdmitsOf(k))

\* C1: in a run of process() calls (clearCache() not called), among events with
\* an identical fingerprint only the first admitted one is processed while its
\* cache entry is within cacheTimeout, every repeat in that window is dropped as
\* a duplicate, and once the entry's expiry timer has fired an event with the
\* identical fingerprint is admitted again.
C1_DedupWindow ==
  ~cleared =>
    (C1_WindowInv /\ C1_OncePerWindow /\ C1_TimerInv /\ C1_LastCall /\ C1_Processed)

\* a fingerprint admitted before has expired and has just been admitted again
C1_Witness ==
  /\ ~cleared
  /\ lastCall.outcome = "admitted"
  /\ Len(admits) = 2
  /\ admits[1].key = admits[2].key

\* C2: the dedup check-and-insert is atomic: whatever the interleaving of
\* process() calls carrying one fingerprint (a later call may begin while an
\* earlier one is still suspended at its await), exactly one of them passes the
\* duplicate check and records the fingerprint; a second one is admitted only
\* after the entry has been removed.
C2_AtomicAdmit ==
  /\ \A i, j \in DOMAIN admits :
       (i < j /\ admits[i].key = admits[j].key) => admits[i].evicted
  /\ \A k \in DOMAIN eventCache :
       Cardinality({i \in AdmitsOf(k) : ~admits[i].evicted}) = 1
  /\ \A i \in DOMAIN procPending : AdmitsOf(Key(procPending[i].event)) # {}

\* a second call with the fingerprint of a call still suspended was dropped
C2_Witness ==
  /\ lastCall.outcome = "duplicate"
  /\ \E i \in DOMAIN procPending : Key(procPending[i].event) = lastCall.key
  /\ Cardinality(AdmitsOf(lastCall.key)) = 1

\* C10: an event that lacks any of source, matchId, eventType or timestamp is
\* rejected by process() before the dedup gate: no fingerprint is recorded, no
\* expiry timer is scheduled, and no alert is or will be emitted for it. Every
\* cache entry, timer, suspended call and alert stems from a complete event, and
\* the call made with an incomplete event returns as invalid, leaving the cache
\* and the timers as it found them.
C10_InvalidRejected ==
  /\ \A k \in DOMAIN eventCache : k \in ValidKeys /\ MissingCount(eventCache[k]) = 0
  /\ \A t \in cacheTimers : t.key \in ValidKeys
  /\ \A i \in DOMAIN procPending : MissingCount(procPending[i].event) = 0
  /\ \A i \in DOMAIN alerts : MissingCount(alerts[i].raw) = 0
  /\ \A i \in DOMAIN admits : admits[i].key \in ValidKeys
  /\ lastCall.outcome \in {"admitted", "duplicate"} => lastCall.key \in ValidKeys
  /\ lastCall.outcome = "invalid" => lastCall.before = <<eventCache, cacheTimers>>

\* an incomplete event was rejected while the cache held an entry
C10_Witness ==
  /\ lastCall.outcome = "invalid"
  /\ DOMAIN eventCache # {}
  /\ Len(admits) = 1

\* the alerts the process() calls that have returned produced, in order
ProducedAlerts ==
  SelectSeq([i \in 1..(Len(admits) - Len(procPending)) |->
               processEventType(admits[i].event, enabledEvents)],
            LAMBDA r : r.kind = "alert")

\* C22: each alert process() produces is handed to the 'alert' listener exactly
\* once, never zero times and never twice, for any sequence of events: the
\* calls of the listener are the alerts produced, one call for each, in order.
C22_HandedOnce == [i \in DOMAIN sink |-> sink[i].alert] = ProducedAlerts

\* the same event was admitted twice, a time-to-live apart, and the listener
\* has been called once for each of the two alerts
C22_Witness ==
  /\ Len(sink) = 2
  /\ procPending = <<>>
  /\ sink[1].alert = sink[2].alert
  /\ admits[1].at + CacheTimeout <= admits[2].at

\* C23: a sink whose sendAlert never completes, or fails, does not hold up the
\* pipeline: with calls of the listener still sending or failed, a suspended
\* process() call can go on and every event can be handed to process(), the
\* alert of a later event is handed to the listener, and the listener settling
\* (sent, or failed and logged) changes nothing of the processor.
C23_SinkNeverBlocks ==
  /\ (\E i \in DOMAIN sink : sink[i].state # "sent") =>
       /\ procPending # <<>> => ENABLED ProcessResume
       /\ \A e \in ProcEvents :
            (isValidEvent(e) /\ ~isDuplicate(eventCache, e) /\ Len(admits) >= MaxAdmits)
              \/ ENABLED ProcessBegin(e)
  /\ (lastCall.outcome = "processed" /\ lastCall.result.kind = "alert") =>
       sink # <<>> /\ sink[Len(sink)] = [alert |-> lastCall.result, state |-> "sending"]
  /\ lastCall.outcome = "settled" => lastCall.before = ProcCore

\* the send of a first alert has not completed or has failed, and the alert of
\* a later event has been handed to the listener
C23_Witness ==
  /\ Len(sink) = 2
  /\ sink[1].state \in {"sending", "failed"}
  /\ lastCall.outcome = "processed"
  /\ lastCall.result = sink[2].alert
----------------------------------------------------------------------------
(* Claims about the rule registry *)

\* C4: every event that passes validation and the dedup gate in process() is
\* evaluated against every rule registered through addRule(), and each non-null
\* rule result is emitted as an alert: when a process() call of an admitted event
\* has returned, every registered rule has been invoked by it, and every result a
\* registered rule gives for the event is among the alerts.
C4_RulesEvaluated ==
  lastCall.outcome = "processed" =>
    \A i \in DOMAIN rules :
      /\ \E j \in DOMAIN lastCall.ran : lastCall.ran[j] = rules[i]
      /\ \A e \in PipelineEvents :
           (Key(e) = lastCall.key /\ RuleOutcome(rules[i].fn, e).kind = "value") =>
             \E a \in DOMAIN alerts :
               /\ alerts[a].type = RuleOutcome(rules[i].fn, e).type
               /\ Key(alerts[a].raw) = lastCall.key

\* the rules that were registered when the pass began and that no addRule or
\* removeRule named while it was in progress
Untouched(p) ==
  {i \in DOMAIN p.start : \A t \in p.touched : t[2] # p.start[i].name}

\* C5: in applyRules(), a rule that throws or rejects on every invocation never
\* prevents the other registered rules from running and contributing: when a
\* pass returns, every rule that stayed registered throughout it has been
\* invoked exactly once with the event, and its non-null result is in the
\* returned results exactly once; this holds for every pass, the first and the
\* later ones.
C5_RuleIsolation ==
  lastCall.outcome = "applied" =>
    \A i \in Untouched(lastCall) :
      LET r == lastCall.start[i]
          o == RuleOutcome(r.fn, lastCall.event)
          hits == {j \in DOMAIN lastCall.results : lastCall.results[j].rule = r.name}
      IN /\ Cardinality({j \in DOMAIN lastCall.ran : lastCall.ran[j].name = r.name}) = 1
         /\ \E j \in DOMAIN lastCall.ran : lastCall.ran[j] = r
         /\ IF o.kind = "value"
              THEN Cardinality(hits) = 1 /\ \A j \in hits : lastCall.results[j].result = o
              ELSE hits = {}

\* a second pass has returned the result of the rule registered behind a rule
\* that throws or rejects
C5_Witness ==
  /\ lastCall.outcome = "applied"
  /\ passLog = 2
  /\ lastCall.touched = {}
  /\ Len(lastCall.start) = 2
  /\ lastCall.start[1].fn \in {"throwingRule", "rejectingRule"}
  /\ lastCall.results = <<[rule |-> lastCall.start[2].name, result |-> RuleValue("early_goal")]>>

\* the calls of addRule() and removeRule() made for `name`
CallsOf(calls, name) == {i \in DOMAIN calls : calls[i].name = name}

LastCallOf(calls, name) ==
  IF CallsOf(calls, name) = {} THEN 0
    ELSE CHOOSE i \in CallsOf(calls, name) : \A j \in CallsOf(calls, name) : j <= i

\* the last call made for `name` is an addRule()
Registered(calls, name) ==
  LastCallOf(calls, name) # 0 /\ calls[LastCallOf(calls, name)].op = "add"

\* the function of the most recent addRule(name, fn)
LatestFn(calls, name) == calls[LastCallOf(calls, name)].fn

\* the call that registered `name`: its first addRule() since its last
\* removeRule(), a later addRule() of the name replaces the function only
RegisteredAt(calls, name) ==
  LET removed == {i \in CallsOf(calls, name) : calls[i].op = "remove"}
      since == {i \in CallsOf(calls, name) : \A j \in removed : j < i}
  IN CHOOSE i \in since : \A j \in since : i <= j

\* the registered names, in the order of their registration
RegistrationOrder(calls) ==
  LET names == {n \in RuleNames : Registered(calls, n)}
  IN [k \in 1..Cardinality(names) |->
        CHOOSE n \in names :
          Cardinality({m \in names : RegisteredAt(calls, m) < RegisteredAt(calls, n)}) = k - 1]

\* the results of the rules of `ran` that returned one for the event, in the
\* order of `ran`
ResultsOf(ran, e) ==
  LET hits == SelectSeq(ran, LAMBDA r : RuleOutcome(r.fn, e).kind = "value")
  IN [j \in DOMAIN hits |-> [rule |-> hits[j].name, result |-> RuleOutcome(hits[j].fn, e)]]

\* C19: after any sequence of addRule() and removeRule() calls, a name is in
\* the registry at most once, exactly when its last call is an addRule(), and
\* with the function of that most recent addRule(); a pass of applyRules() that
\* follows the calls invokes that function exactly once for the name, and
\* invokes nothing for a name that was removed and no function that was
\* replaced.
C19_ReplaceSemantics ==
  regLog.on =>
    /\ \A n \in RuleNames :
         Cardinality({i \in DOMAIN rules : rules[i].name = n})
           = IF Registered(regLog.calls, n) THEN 1 ELSE 0
    /\ \A i \in DOMAIN rules : rules[i].fn = LatestFn(regLog.calls, rules[i].name)
    /\ (lastCall.outcome = "applied" /\ lastCall.touched = {}) =>
         \A n \in RuleNames :
           LET invoked == {j \in DOMAIN lastCall.ran : lastCall.ran[j].name = n}
           IN /\ Cardinality(invoked) = IF Registered(regLog.calls, n) THEN 1 ELSE 0
              /\ \A j \in invoked : lastCall.ran[j].fn = LatestFn(regLog.calls, n)

\* a pass has run after a name was registered with one function and then with
\* another, and has invoked the second function only
C19_Witness ==
  /\ regLog.on
  /\ lastCall.outcome = "applied"
  /\ lastCall.touched = {}
  /\ \E i, j \in DOMAIN regLog.calls :
       /\ i < j
       /\ regLog.calls[i].op = "add" /\ regLog.calls[j].op = "add"
       /\ regLog.calls[i].name = regLog.calls[j].name
       /\ regLog.calls[i].fn # regLog.calls[j].fn
       /\ lastCall.ran = <<[name |-> regLog.calls[j].name, fn |-> regLog.calls[j].fn]>>

\* C20: within one pass of applyRules() the rules run in registration order,
\* whatever calls of addRule() and removeRule() came before the pass, a name
\* registered again while registered keeping its place and a name registered
\* again after its removal going last; and the results the pass returns are
\* those of the rules that returned one, in the order in which the rules ran.
C20_RegistrationOrder ==
  (regLog.on /\ lastCall.outcome = "applied") =>
    /\ lastCall.touched = {} =>
         [j \in DOMAIN lastCall.ran |-> lastCall.ran[j].name] = RegistrationOrder(regLog.calls)
    /\ lastCall.results = ResultsOf(lastCall.ran, lastCall.event)

\* a pass has run two rules, the first of them registered again after the
\* second was registered, and has returned the results of both
C20_Witness ==
  /\ regLog.on
  /\ lastCall.outcome = "applied"
  /\ lastCall.touched = {}
  /\ Len(regLog.calls) = 3
  /\ \A i \in 1..3 : regLog.calls[i].op = "add"
  /\ regLog.calls[3].name = regLog.calls[1].name
  /\ regLog.calls[2].name # regLog.calls[1].name
  /\ Len(lastCall.ran) = 2
  /\ lastCall.ran[1].name = regLog.calls[1].name
  /\ Len(lastCall.results) = 2
  /\ lastCall.results[1].rule = regLog.calls[1].name
----------------------------------------------------------------------------
(* Claims about the collectors *)

Max(a, b) == IF a > b THEN a ELSE b

C11_HeartbeatReplaces ==
  /\ lastMsg.op = "heartbeat" =>
       /\ lastMsg.before[1]
       /\ IF lastMsg.age > 2 * HeartbeatInterval
            THEN /\ lastMsg.sessions = <<"open">>
                 /\ lastMsg.kept = <<>>
                 /\ lastMsg.after = <<FALSE, lastMsg.before[2], "connecting">>
                 /\ lastMsg.timer = Null
            ELSE /\ lastMsg.after = lastMsg.before
                 /\ lastMsg.timer = Num(HeartbeatInterval)
  /\ (\E k \in DOMAIN Sessions(coll) : Sessions(coll)[k] = "open") =>
       /\ coll.heartbeatTimer # Null
       /\ coll.lastMessageAge <= 3 * HeartbeatInterval

C13_OpenConnects ==
  lastMsg.op = "open" =>
    /\ lastMsg.after[1]
    /\ lastMsg.after[2] = 0
    /\ lastMsg.timer = Num(HeartbeatInterval)
    /\ coll.isConnected /\ coll.reconnectAttempts = 0
    /\ lastMsg.subscribe =
         (CASE coll.kind = "bwin" -> IF lastMsg.socket = "ws" THEN "sent"
                                     ELSE IF coll.ws = "open" THEN "sent" ELSE "notSent"
            [] coll.kind = "bet365" -> "awaiting"
            [] OTHER -> "notOverridden")

\* a Bwin session has opened on a reconnect, after failed attempts
C13_Witness ==
  /\ lastMsg.op = "open"
  /\ lastMsg.socket = "ws"
  /\ lastMsg.before[2] = MaxReconnectAttempts
  /\ ~lastMsg.before[1]
  /\ coll.kind = "bwin"
  /\ lastMsg.subscribe = "sent"

\* C14: disconnect() is idempotent. In every state the collector can be in, a
\* call leaves ws = null, heartbeatTimer = null and isConnected = false, and a
\* second call changes nothing; accordingly every call made on a collector
\* that is already in that state (stop() or a reconnect timer after an earlier
\* disconnect()) leaves it exactly as it found it.
C14_DisconnectIdempotent ==
  /\ Released(disconnect(coll))
  /\ disconnect(disconnect(coll)) = disconnect(coll)
  /\ (lastMsg.op \in {"disconnect", "reconnect"} /\ lastMsg.released) => lastMsg.unchanged

\* the reconnect timer that stop() left pending has called disconnect() again
C14_Witness ==
  /\ lastMsg.op = "reconnect"
  /\ lastMsg.released
  /\ lastMsg.unchanged
  /\ coll.leftOver
  /\ ~isRunning

\* C15: after disconnect() returns, whatever state it was called in, the
\* collector holds no session that is open or opening: the socket it held was
\* not still connecting (such a socket is not closed), and no socket created
\* earlier is still bound to the collector.
C15_DisconnectReleases ==
  lastMsg.op \in {"disconnect", "reconnect"} =>
    /\ lastMsg.start[3] # "connecting"
    /\ lastMsg.kept = <<>>

\* C16: once stop() has disconnected the collector, and until start() is called
\* again, the collector has no session that is open or opening and emits no
\* 'data' event, even if a reconnect timer was pending at the moment of stop().
C16_QuietAfterStop ==
  (~isRunning /\ coll.starts > 0) =>
    /\ \A k \in DOMAIN Sessions(coll) : Sessions(coll)[k] \notin Live
    /\ lastMsg.op \in {"message", "otherMessage"} => ~lastMsg.emitted

\* C18: the entry getStatus() returns for a collector that has reached Failed
\* (maxReconnectReached emitted) differs from the entry it returned for that
\* collector while it was disconnected and a retry was still scheduled.
C18_FailedReported ==
  \A k \in DOMAIN coll.retryStatus :
    (coll.failed /\ ~coll.retryStatus[k].connected) => StatusEntry(coll) # coll.retryStatus[k]

----------------------------------------------------------------------------
(* Claims about the stateful rules *)

\* the goal events fed up to the i-th that are of the pair of the i-th
GoalsOfPair(i) ==
  {j \in 1..i : /\ ruleLog[j].event.eventType = Str("goal")
                /\ ruleLog[j].event.matchId = ruleLog[i].event.matchId
                /\ ruleLog[j].event.player = ruleLog[i].event.player}

\* C6: for any sequence of goal events fed to hatTrickRule, a hat_trick result is
\* returned exactly once per (matchId, player) pair: on the third goal event of
\* the pair and on no other; goals of other players or of other matches do not
\* advance the count.
C6_HatTrickOncePerPair ==
  \A i \in DOMAIN ruleLog :
    LET e == ruleLog[i].event
        r == ruleLog[i].result
    IN IF e.eventType = Str("goal") /\ Truthy(e.player)
         THEN /\ r.kind = "value" <=> Cardinality(GoalsOfPair(i)) = 3
              /\ r.kind = "value" => r.type = "hat_trick" /\ r.player = e.player
         ELSE r = RuleNull

IsCard(e) == e.eventType \in {Str("yellow_card"), Str("red_card")}

\* the card events fed up to the i-th that are of the match of the i-th
CardsOfMatch(i) ==
  {j \in 1..i : IsCard(ruleLog[j].event)
                /\ ruleLog[j].event.matchId = ruleLog[i].event.matchId}

\* the cards carry a minute and were fed in the order of their minutes
Chronological(idx) ==
  /\ \A j \in idx : ruleLog[j].event.minute[1] = "num"
  /\ \A j, k \in idx : j < k => ruleLog[j].event.minute[2] <= ruleLog[k].event.minute[2]

First(idx) == CHOOSE j \in idx : \A k \in idx : j <= k

\* C7: for multipleCardsRule on one match, fed the cards of the match in the
\* order of their minutes: the first and the second card event produce no
\* result, and a third card event whose minute is within 10 of the first one's
\* produces a card_storm result whose count is 3, the only result of the three.
C7_CardStorm ==
  \A i \in DOMAIN ruleLog :
    IsCard(ruleLog[i].event) =>
      LET idx == CardsOfMatch(i) IN
        /\ Cardinality(idx) <= 2 => ruleLog[i].result = RuleNull
        /\ ( /\ Cardinality(idx) = 3
             /\ Chronological(idx)
             /\ ruleLog[i].event.minute[2] - ruleLog[First(idx)].event.minute[2] <= 10 ) =>
             ruleLog[i].result = [kind |-> "value", type |-> "card_storm", count |-> 3]

\* three cards of one match at minutes 5, 10 and 15: the third is a card storm
C7_Witness ==
  /\ Len(ruleLog) = 3
  /\ \A i \in 1..3 : IsCard(ruleLog[i].event) /\ ruleLog[i].event.matchId = Str("7")
  /\ ruleLog[1].event.minute = Num(5)
  /\ ruleLog[2].event.minute = Num(10)
  /\ ruleLog[3].event.minute = Num(15)
  /\ ruleLog[1].result = RuleNull /\ ruleLog[2].result = RuleNull
  /\ ruleLog[3].result.kind = "value"
----------------------------------------------------------------------------
(* Claims about SofaScoreCollector *)

\* the goal events emitted by the k-th handleMatchUpdate() call
GoalsFrom(k) ==
  {i \in DOMAIN sofaEvents : sofaEvents[i].eventType = "goal" /\ sofaEvents[i].update = k}

\* the updates of the match of the k-th update that came before it
EarlierOfMatch(k) == {j \in 1..(k - 1) : sofaLog[j].id = sofaLog[k].id}

\* C8: when handleMatchUpdate() calls run one after another (none begins while
\* another is suspended), the first update observed for a match yields no goal
\* event whatever score it carries, and a match first observed at 0-0 and then
\* at 1-0 yields exactly one goal event, of the home team, once the second call
\* has returned.
C8_SequentialGoals ==
  ~sofaOverlap =>
    \A k \in DOMAIN sofaLog :
      /\ EarlierOfMatch(k) = {} => GoalsFrom(k) = {}
      /\ \A j \in EarlierOfMatch(k) :
           ( /\ EarlierOfMatch(k) = {j}
             /\ sofaLog[j].home = Num(0) /\ sofaLog[j].away = Num(0)
             /\ sofaLog[j].status # Str("finished")
             /\ sofaLog[k].home = Num(1) /\ sofaLog[k].away = Num(0)
             /\ \A t \in sofaTasks : t.k # k ) =>
             /\ Cardinality(GoalsFrom(k)) = 1
             /\ \A i \in GoalsFrom(k) :
                  /\ sofaEvents[i].team = "home"
                  /\ sofaEvents[i].score = Str("1-0")
                  /\ sofaEvents[i].matchId = sofaLog[k].id
             /\ GoalsFrom(j) = {}

\* match 1 was observed at 0-0, then at 1-0, and the one goal has been emitted
C8_Witness ==
  /\ ~sofaOverlap
  /\ sofaTasks = {}
  /\ Len(sofaLog) = 2
  /\ sofaLog[1] = SofaUpdate(Num(1), Num(0), Num(0), Undef, Undef, FALSE)
  /\ sofaLog[2] = SofaUpdate(Num(1), Num(1), Num(0), Undef, Undef, FALSE)
  /\ Len(sofaEvents) = 1
  /\ sofaEvents[1].eventType = "goal"
  /\ previousScores[Num(1)] = [home |-> Num(1), away |-> Num(0)]

\* C21: arrival order is preserved within the stream of one connector: every
\* event derived from an update is emitted before any event derived from an
\* update that arrived after it, however long the lookups of the earlier update
\* take.
C21_ArrivalOrder ==
  \A i, j \in DOMAIN sofaEvents : i < j => sofaEvents[i].update <= sofaEvents[j].update

\* C24: extractMinute returns the explicit provider minute when one is
\* supplied; otherwise the minute it derives is within 0..45 in the first half
\* and, in the second half, is 45 plus the elapsed minutes clamped to at most
\* 90, so within 45..90, for every period-start timestamp and current time.
C24_MinuteRange ==
  (pureCall.fn = "extractMinute" /\ pureCall.done) =>
    LET data == pureCall.data
        r == pureCall.result
    IN IF ExplicitMinute(data) THEN r = Num(ParseInt(data.statusDescription))
       ELSE r[1] = "num" =>
              IF data.statusCode = Num(7)
                THEN /\ r[2] = Min(45 + ElapsedMinutes(data.periodStart[2], now), 90)
                     /\ r[2] \in 45..90
                ELSE r[2] \in 0..45

\* C25: in the wiring of the entry point, every goal, red_card or yellow_card
\* event SofaScoreCollector emits reaches process() with that eventType, passes
\* validation and produces the alert of its type for its match.
C25_EventsNotified ==
  \A i \in DOMAIN sofaEvents :
    \E j \in DOMAIN alerts :
      /\ alerts[j].type = sofaEvents[i].eventType
      /\ alerts[j].matchId = sofaEvents[i].matchId

\* the updates of match `id` that carry a score
ScoreUpdates(id) ==
  {k \in DOMAIN sofaLog : sofaLog[k].id = id /\ (sofaLog[k].home # Undef \/ sofaLog[k].away # Undef)}

\* the score an update reports, a side it does not carry counted as 0
Reported(k) == [home |-> Nullish(sofaLog[k].home, Num(0)), away |-> Nullish(sofaLog[k].away, Num(0))]

Last(idx) == CHOOSE k \in idx : \A j \in idx : j <= k

\* the score-carrying updates of the match in which the score of a side is above
\* the score of the update of the match before
Increments(id) ==
  {k \in ScoreUpdates(id) :
     LET before == {j \in ScoreUpdates(id) : j < k}
     IN before # {} /\ GoalSide(Reported(Last(before)), Reported(k)) # "none"}

MatchOngoing(id) == \A k \in DOMAIN sofaLog : sofaLog[k].id = id => sofaLog[k].status = Undef

\* C26: for every interleaving of handleMatchUpdate() calls of one match, one
\* score increment on the wire yields one goal event, so no more goal events
\* than increments, and once the calls have returned the remembered score is
\* the score of the latest update, never the stale score of a slower older call.
C26_OneGoalPerIncrement ==
  \A k \in DOMAIN sofaLog :
    LET id == sofaLog[k].id
    IN (Truthy(id) /\ MatchOngoing(id)) =>
         /\ Cardinality({i \in DOMAIN sofaEvents :
                           sofaEvents[i].eventType = "goal" /\ sofaEvents[i].matchId = id})
              <= Cardinality(Increments(id))
         /\ (sofaTasks = {} /\ ScoreUpdates(id) # {}) =>
              /\ id \in DOMAIN previousScores
              /\ previousScores[id] = Reported(Last(ScoreUpdates(id)))

\* the last value the updates of the match reported for a side
LastReported(id, side) ==
  LET idx == {k \in ScoreUpdates(id) : sofaLog[k][side] # Undef}
  IN IF idx = {} THEN Undef ELSE sofaLog[Last(idx)][side]

\* C27: a goal event for a side is emitted only when the score of that side
\* went up against the last value the source reported for it, and an update
\* that carries the score of one side only leaves the remembered score of the
\* other side as it was (here with the calls run one after another).
C27_OmittedSideKept ==
  (~sofaOverlap /\ sofaTasks = {}) =>
    \A id \in DOMAIN previousScores :
      MatchOngoing(id) =>
        \A side \in {"home", "away"} :
          LastReported(id, side) # Undef => previousScores[id][side] = LastReported(id, side)

\* C28: for any sequence of process() and clearCache() calls, a fingerprint
\* admitted at time t stays in the cache, so that every repeat is rejected as a
\* duplicate, until t + cacheTimeout unless clearCache() is called after t; the
\* expiry timer of an admission made before a clearCache() never removes the
\* entry of a later admission before that entry's own time-to-live has elapsed.
C28_WindowAcrossClear ==
  \A i \in DOMAIN admits :
    (now < admits[i].at + CacheTimeout /\ (admits[i].afterClear \/ ~cleared)) =>
      admits[i].key \in DOMAIN eventCache

\* the cards of the match recorded up to the i-th event whose minute is in the
\* ten minutes up to the minute of the i-th
TrailingWindow(i) ==
  {j \in CardsOfMatch(i) :
     /\ ruleLog[j].event.minute[1] = "num"
     /\ ruleLog[j].event.minute[2] <= ruleLog[i].event.minute[2]
     /\ ruleLog[j].event.minute[2] >= ruleLog[i].event.minute[2] - 10}

\* C29: multipleCardsRule returns card_storm for a card at minute m only if at
\* least 3 recorded cards of the match, the current one included, have a minute
\* in [m - 10, m], and the count it reports is the number of cards in that
\* window; cards recorded with a later minute than m are not counted.
C29_TrailingWindow ==
  \A i \in DOMAIN ruleLog :
    (IsCard(ruleLog[i].event) /\ ruleLog[i].result # RuleNull) =>
      /\ ruleLog[i].event.minute[1] = "num"
      /\ Cardinality(TrailingWindow(i)) >= 3
      /\ ruleLog[i].result.count = Cardinality(TrailingWindow(i))

\* C30: the rules on the minute fire on a known minute only: earlyGoalRule
\* returns early_goal exactly for goal events whose minute is a number <= 15,
\* lateGoalRule returns late_goal exactly for goal events whose minute is a
\* number >= 80, and a goal whose minute is null or undefined triggers neither.
C30_KnownMinuteOnly ==
  (pureCall.fn \in {"earlyGoalRule", "lateGoalRule"} /\ pureCall.done) =>
    LET e == pureCall.data
        known == e.eventType = Str("goal") /\ e.minute[1] = "num"
    IN IF pureCall.fn = "earlyGoalRule"
         THEN pureCall.result = (IF known /\ e.minute[2] <= 15
                                   THEN RuleValue("early_goal") ELSE RuleNull)
         ELSE pureCall.result = (IF known /\ e.minute[2] >= 80
                                   THEN RuleValue("late_goal") ELSE RuleNull)

\* the events of the process() calls that were admitted and have returned
ReturnedEvents ==
  [i \in 1..(Len(admits) - Len(procPending)) |-> admits[i].event]

\* the category of the event is one of the three and is switched on
CategoryEnabled(e) ==
  \/ e.eventType = Str("goal") /\ enabledEvents.goals
  \/ e.eventType = Str("red_card") /\ enabledEvents.redCards
  \/ e.eventType = Str("yellow_card") /\ enabledEvents.yellowCards

\* C32: for every valid, non-duplicate event process() emits exactly one alert
\* when the eventType is goal, red_card or yellow_card and the category is
\* enabled, with the type, matchId and source of the event, whether or not the
\* optional fields (score, ...) are present; and no alert for a disabled
\* category or another eventType. The alerts emitted are, one for one and in
\* order, those of the returned calls whose category is enabled.
C32_OneAlertPerEvent ==
  LET due == SelectSeq(ReturnedEvents, CategoryEnabled)
  IN /\ Len(alerts) = Len(due)
     /\ \A i \in DOMAIN alerts :
          i <= Len(due) =>
            /\ Str(alerts[i].type) = due[i].eventType
            /\ alerts[i].matchId = due[i].matchId
            /\ alerts[i].source = due[i].source

RestartCycles(c) ==
  c.reconnectTimers + Cardinality({i \in DOMAIN c.tasks : c.tasks[i].cycle})

OpenBrowsers(c) == {b \in DOMAIN c.browsers : c.browsers[b] = "open"}

\* C31: a SofaScoreCollector never has more than one restart cycle (scheduled
\* reconnect timer, or stop()/start() in progress) pending at a time, also when
\* several Network.webSocketClosed notifications arrive close together; and it
\* never has a second browser launched while one it launched is still open.
C31_OneRestartCycle ==
  coll.kind = "sofa" =>
    /\ RestartCycles(coll) <= 1
    /\ Cardinality(OpenBrowsers(coll)) <= 1

\* C39: in every reachable state of a BaseCollector and of a SofaScoreCollector
\* 0 <= reconnectAttempts <= maxReconnectAttempts; the counter increases by
\* exactly 1 per scheduled reconnect and returns to 0 only on a successful
\* (re)connection: it is the number of reconnects scheduled since the last
\* successful open (BaseCollector) or restart (SofaScoreCollector).
C39_AttemptsCounted ==
  /\ coll.reconnectAttempts >= 0
  /\ coll.reconnectAttempts <= coll.maxReconnectAttempts
  /\ coll.reconnectAttempts = Len(coll.delays)
  /\ (coll.kind = "sofa" /\ lastMsg.op # "none") =>
       \/ lastMsg.after = lastMsg.before
       \/ lastMsg.after = lastMsg.before + 1 /\ lastMsg.op \in {"closed", "prepared", "session", "failed"}
       \/ lastMsg.after = 0 /\ lastMsg.op = "started"

\* a restart cycle of a SofaScoreCollector succeeded after two scheduled
\* reconnects and set the counter back to 0
C39_Witness ==
  /\ coll.kind = "sofa"
  /\ lastMsg.op = "started"
  /\ lastMsg.before = 2
  /\ lastMsg.after = 0

\* the match of the i-th event fed has ended there: a match_end, and no event of
\* the match after it
EndedAt(i) ==
  /\ ruleLog[i].event.eventType = Str("match_end")
  /\ \A j \in DOMAIN ruleLog : j > i => ruleLog[j].event.matchId # ruleLog[i].event.matchId

\* C33: the per-match memory of the stateful rules does not outlive the match:
\* once match_end has been evaluated for a match, multipleCardsRule holds no
\* card history and hatTrickRule holds no goal counter of that match.
C33_NoStateAfterEnd ==
  \A i \in DOMAIN ruleLog :
    EndedAt(i) =>
      /\ ruleLog[i].event.matchId \notin DOMAIN cardHistory
      /\ \A j \in 1..i :
           ruleLog[j].event.matchId = ruleLog[i].event.matchId =>
             hatTrickKey(ruleLog[j].event) \notin DOMAIN playerGoals

\* the events processor p has fed, with their results
OwnLog(p) == SelectSeq(ruleLog, LAMBDA r : r.by = p)

\* the results of the two rules on a sequence of events, from given state
RECURSIVE ReplayRules(_, _, _)
ReplayRules(events, goals, history) ==
  IF events = <<>> THEN <<>>
  ELSE <<StatefulResults(goals, history, Head(events))>>
         \o ReplayRules(Tail(events), hatTrickRule(goals, Head(events)).state,
                        multipleCardsRule(history, Head(events)).state)

\* C37: rule state is owned per processor instance: the results a processor
\* gets for its own event sequence are those of that sequence alone, from
\* empty hat-trick counters and card histories, whatever the events the other
\* processor has fed in between.
C37_StatePerInstance ==
  \A p \in Processors :
    [i \in DOMAIN OwnLog(p) |-> OwnLog(p)[i].result]
      = ReplayRules([i \in DOMAIN OwnLog(p) |-> OwnLog(p)[i].event], EmptyMap, EmptyMap)

\* the update that led to the i-th event, or an earlier one, carried the team
\* names of the match
NamesSeen(i) ==
  \E j \in 1..sofaEvents[i].update :
    sofaLog[j].id = sofaEvents[i].matchId /\ sofaLog[j].teams

\* C34: enrichment backfills later events: when the lookup returned nothing for
\* a match first seen, then once an update carrying homeTeam and awayTeam has
\* arrived every event of that match carries the real names, not the fallback.
C34_NamesBackfilled ==
  \A i \in DOMAIN sofaEvents :
    NamesSeen(i) =>
      /\ sofaEvents[i].homeTeam # Str("Unknown")
      /\ sofaEvents[i].awayTeam # Str("Unknown")

\* C35: a field whose value the source did not provide is explicitly absent in
\* the event emitted: no event carries the placeholder 'Unknown' for homeTeam
\* or awayTeam, and no event carries a score with a side the update did not
\* report.
C35_NoPlaceholders ==
  \A i \in DOMAIN sofaEvents :
    /\ sofaEvents[i].homeTeam # Str("Unknown")
    /\ sofaEvents[i].awayTeam # Str("Unknown")
    /\ sofaEvents[i].score # Undef =>
         /\ sofaLog[sofaEvents[i].update].home # Undef
         /\ sofaLog[sofaEvents[i].update].away # Undef

CanonicalTypes ==
  {Str("goal"), Str("red_card"), Str("yellow_card"), Str("match_start"),
   Str("match_end"), Str("period_change"), Str("unknown")}

\* C36: every normalized event a connector emits has an eventType of the
\* canonical set {goal, red_card, yellow_card, match_start, match_end,
\* period_change, unknown}; a provider type the normalizer does not recognise
\* is mapped to unknown, not passed through.
C36_CanonicalTypes ==
  (pureCall.fn \in {"bwin.normalizeEvent", "bet365.normalizeEvent"} /\ pureCall.done) =>
    pureCall.result.eventType \in CanonicalTypes

\* the message is one the claim calls a connection, time-update or session
\* message: not parsed as 'zap', or its topic contains 'time' or starts with
\* 'I' or 'S_'
NoEventTopic(parsed) ==
  \/ parsed.type # "zap"
  \/ /\ parsed.topic # Undef
     /\ \/ includes(parsed.topic, <<"t", "i", "m", "e">>)
        \/ startsWith(parsed.topic, <<"I">>)
        \/ startsWith(parsed.topic, <<"S", "_">>)

\* C38: isMatchEvent returns false for every connection, time-update and
\* session message, whatever data keys it carries, and true for a zap message
\* on any other topic that carries at least one of EV, SC, GO, RC, YC, PS, MG.
C38_MatchEventsOnly ==
  (pureCall.fn = "isMatchEvent" /\ pureCall.done) =>
    /\ NoEventTopic(pureCall.data) => pureCall.result = FALSE
    /\ (~NoEventTopic(pureCall.data) /\ pureCall.data.data[2] \cap EventKeys # {}) =>
         pureCall.result = TRUE
====
